---- MODULE Spec2Model ----
(***************************************************************************)
(* The debug-protocol engine (DAPServer) and the program session          *)
(* (BasicInterpreter) of the BASIC LSP/DAP server, as a state machine.     *)
(*                                                                         *)
(* One action is one iteration of the dispatch loop of main(): a request  *)
(* is read by receiveMessage, its handler runs, and processMessage sends   *)
(* the response.  The first statement of receiveMessage (the runTillStop_  *)
(* block) is the action RunTillStop: it runs before the next request is    *)
(* read, so requests are served only while runTillStop_ is false.          *)
(*                                                                         *)
(* The frames written to the transport during the last iteration are kept  *)
(* in out, the request that was served in last; dispatchPc tells whether   *)
(* the dispatch thread is between two iterations or inside a handler that  *)
(* does not return.                                                        *)
(***************************************************************************)
EXTENDS Integers, Sequences, FiniteSets, TLC

\* ---------------------------------------------------------------- bounds
MaxSeq == 2
MaxBpId == 5
MaxLineNo == 4
MaxOut == 3
\* The bytes that std::cin may hold when the client writes a frame.
MaxInbound == 64

\* The writes to the outbound transport that are followed.
MaxWire == 5

\* The bytes that socketBuffer may hold when a client sends.
MaxBuffer == 3

\* The rounds after which a loop of the interpreter counts as never left.
MaxIterations == 6

\* ------------------------------------------------------- input alphabets
\* Source lines, by what executeLine does with them:
\*   "LET"   LET X = 1      assigns X
\*   "PRINT" PRINT "A"      emits output
\*   "BAD"   LET = 5        syntax error: parseLine returns no statement
\*   "WHILE" WHILE 1        loops: the condition stays true, the body is empty
EmptyContent == << >>

\* The program files a launch can name, and the text readFileContent returns
\* for each; "none.bas" cannot be read.  "c.bas" is launched by LaunchLoop.
Paths == {"a.bas", "b.bas"}

Files == Paths \cup {"none.bas"}

readFileContent(path) ==
    CASE path = "a.bas" -> <<"PRINT", "LET">>
      [] path = "b.bas" -> <<"LET", "BAD", "PRINT">>
      [] path = "c.bas" -> <<"BAD", "WHILE">>
      [] OTHER -> EmptyContent

NoSource == ""

Seqs == 1..MaxSeq

BpLines == {1, 2}

BpLists == {<< >>, <<2>>, <<1, 2>>}

\* The lines an execution thread passes to checkForStep.
ExecLines == 1..2

\* The expression texts of evaluate requests:
\*   "1"          a literal
\*   "X"          a symbol: the variable X, an error while X is undefined
\*   "1 +"        syntax error: parseLine returns no statement
\*   "@"          lexical error: unknown character
\*   "<U+00E9>"   the letter e-acute, bytes C3 A9: lexical error at byte C3
\*   "LET X = 2"  a statement: parseLine accepts every statement
\*   "WHILE 1"    a statement that loops
ExprTexts == {"1", "X", "1 +", "@", "<U+00E9>", "LET X = 2", "WHILE 1"}

\* The commands without a handler that a client sends.
UnknownCommands == {"configurationDone", "goto"}

VarNames == {"X", "Y"}

VarRefs == {1, 2, 3}

VARIABLES
    \* DAPServer
    running_, useNetwork_, debugging_, paused_, currentLine_, currentSource_,
    sources_, breakpoints_, breakpointMap_, nextBreakpointId_, runTillStop_,
    stepMode_,
    \* BasicInterpreter
    itp_lines_, itp_currentLine_, itp_paused_, itp_variables_, itp_lastError_,
    \* execution thread inside DAPServer::checkForStep
    execPc, execLine, pauseCondition_,
    \* the dispatch thread: "idle" between two iterations of the loop of
    \* main(), "handler" inside a handler that does not return
    \* "accept" inside the accept call of DAPServer::start
    dispatchPc,
    \* transport, and the request served last
    out, last,
    \* the sockets of the network transport, and what a recv of the client
    \* socket yields: "open" (a request), "eof" (0), "error" (-1 on every
    \* call) or "error once" (-1, then 0)
    serverSocket_, clientSocket_, checkConnection_, peer,
    \* the interpreter called on a text: the text, what the call left, and
    \* what it wrote to std::cout
    text, result, console,
    \* the thread that holds mutex_: "free", "exec" or "dispatch"
    mutex_,
    \* the writes to the outbound transport, in the order they reached it
    wire,
    \* the static socketBuffer of receiveMessage
    socketBuffer,
    \* the bytes that the inbound transport has yet to yield: the bytes of
    \* the client socket that recv has not returned, or those of std::cin
    inbound,
    \* the commands of the requests that the client has written and that
    \* receiveMessage has not returned yet
    sent

srvVars == <<running_, useNetwork_, debugging_, paused_, currentLine_,
             currentSource_, sources_, breakpoints_, breakpointMap_,
             nextBreakpointId_, runTillStop_, stepMode_>>

itpVars == <<itp_lines_, itp_currentLine_, itp_paused_, itp_variables_,
             itp_lastError_>>

execVars == <<execPc, execLine, pauseCondition_>>

netVars == <<serverSocket_, clientSocket_, checkConnection_, peer>>

interpVars == <<text, result, console>>

wireVars == <<mutex_, wire, socketBuffer, inbound, sent>>

vars ==
    <<srvVars, itpVars, execVars, dispatchPc, out, last, netVars, interpVars,
      wireVars>>

\* ------------------------------------------------------------ functions
EmptyMap == [x \in {} |-> 0]

MapPut(m, k, v) == [x \in (DOMAIN m) \cup {k} |-> IF x = k THEN v ELSE m[x]]

MapErase(m, k) == [x \in (DOMAIN m) \ {k} |-> m[x]]

\* ------------------------------------------------------------- frames
Response(seq, body) ==
    [type |-> "response", request_seq |-> seq, success |-> TRUE, body |-> body]

Event(name) == [type |-> "event", event |-> name]

StoppedEvent(reason, line) ==
    [type |-> "event", event |-> "stopped", reason |-> reason, line |-> line]

OutputEvent(category, output) ==
    [type |-> "event", event |-> "output", category |-> category,
     output |-> output]

NoBody == << >>

\* createErrorResponse with the slip of building the response as
\* createResponse does, the error as its result.
createErrorResponse_asResult(seq, code, message) ==
    [type |-> "response", request_seq |-> seq, success |-> TRUE,
     body |-> [code |-> code, message |-> message]]

\* DAPServer::createErrorResponse as sendMessage writes it: no body, success
\* false and the error under message.
createErrorResponse(seq, code, message) ==
    [type |-> "response", request_seq |-> seq, success |-> FALSE,
     message |-> [code |-> code, message |-> message]]

IsResponse(f) == f.type = "response"

IsStopped(f) == f.type = "event" /\ f.event = "stopped"

IsOutput(f) == f.type = "event" /\ f.event = "output"

\* The descriptors that socket() and accept() return in DAPServer::start.
ListenFd == 3

ClientFd == 4

\* ------------------------------------------------------------------ Init
NoResult == [call |-> "none"]

InitServer ==
    /\ running_ = TRUE
    /\ useNetwork_ \in BOOLEAN
    /\ serverSocket_ = IF useNetwork_ THEN ListenFd ELSE -1
    /\ clientSocket_ = IF useNetwork_ THEN ClientFd ELSE -1
    /\ checkConnection_ = FALSE
    /\ peer = "open"
    /\ debugging_ = FALSE
    /\ paused_ = FALSE
    /\ currentLine_ = 0
    /\ currentSource_ = NoSource
    /\ sources_ = EmptyMap
    /\ breakpoints_ = EmptyMap
    /\ breakpointMap_ = EmptyMap
    /\ nextBreakpointId_ = 1
    /\ runTillStop_ = FALSE
    /\ stepMode_ = FALSE
    /\ itp_lines_ = << >>
    /\ itp_currentLine_ = 0
    /\ itp_paused_ = FALSE
    /\ execPc = "idle"
    /\ execLine = 0
    /\ pauseCondition_ = {}
    /\ dispatchPc = "idle"
    /\ out = << >>
    /\ last = [command |-> "", seq |-> 0, threw |-> FALSE, closed |-> NoSource]
    /\ mutex_ = "free"
    /\ wire = << >>
    /\ socketBuffer = << >>
    /\ inbound = << >>
    /\ sent = << >>

Init ==
    /\ InitServer
    /\ itp_variables_ = EmptyMap
    /\ itp_lastError_ = ""
    /\ text = << >>
    /\ result = NoResult
    /\ console = << >>

\* ------------------------------------------------ DAPServer: dispatching
\* main(): the dispatch loop reads a request only while the server runs and
\* after receiveMessage has passed its runTillStop_ block.
CanRead ==
    running_ /\ ~runTillStop_ /\ dispatchPc = "idle" /\ peer = "open"

\* processMessage: the handler's frames, then the response of the request.
\* last keeps, for a disconnect, the source the session had when it was read.
Replied(seq, cmd, frames, body) ==
    /\ out' = frames \o <<Response(seq, body)>>
    /\ last' = [command |-> cmd, seq |-> seq, threw |-> FALSE,
                closed |-> IF cmd = "disconnect" THEN currentSource_
                           ELSE NoSource]
    /\ running_' = running_
    /\ dispatchPc' = dispatchPc
    /\ UNCHANGED <<netVars, interpVars, wireVars>>

\* The handler threw: processMessage never reaches sendMessage.  The loop of
\* the DAP-only mode (network transport) leaves on the exception and main
\* stops the server; the interactive loop swallows it.
Threw(seq, cmd) ==
    /\ out' = << >>
    /\ last' = [command |-> cmd, seq |-> seq, threw |-> TRUE,
                closed |-> NoSource]
    /\ running_' = (running_ /\ ~useNetwork_)
    /\ dispatchPc' = dispatchPc
    /\ UNCHANGED <<netVars, interpVars, wireVars>>

\* DAPServer::getSource
getSource(src, path) == IF path \in DOMAIN src THEN src[path] ELSE EmptyContent

\* --------------------------------------------------- BasicInterpreter
\* BasicInterpreter::loadProgram: the lines of the text, the cursor at 0 and
\* the error cleared.  Parser::parseStatement catches the error of a
\* statement it cannot parse and Parser::parseProgram drops the statement, so
\* parse returns a program and loadProgram returns true for every text that
\* the lexer accepts.
loadProgram(content) ==
    [lines |-> content, currentLine |-> 0, lastError |-> "", ok |-> TRUE]

\* BasicInterpreter::executeLine and Runtime::execute on the parsed line:
\* the store, the error and the frames the line leaves behind, and whether
\* the call returns at all (Runtime::executeWhileStatement does not leave a
\* loop whose condition stays true).
executeLine(kind, store, err) ==
    CASE kind = "LET" ->
           [variables |-> MapPut(store, "X", 1), lastError |-> err,
            frames |-> << >>, ok |-> TRUE, returns |-> TRUE]
      [] kind = "PRINT" ->
           [variables |-> store, lastError |-> err,
            frames |-> <<OutputEvent("A\n", "stdout")>>, ok |-> TRUE,
            returns |-> TRUE]
      [] kind = "WHILE" ->
           [variables |-> store, lastError |-> err,
            frames |-> << >>, ok |-> TRUE, returns |-> FALSE]
      [] OTHER ->
           [variables |-> store, lastError |-> "Failed to parse line",
            frames |-> << >>, ok |-> FALSE, returns |-> TRUE]

\* BasicInterpreter::step: one line, only when the interpreter is paused and
\* the cursor is before the end; the interpreter is paused again afterwards.
step ==
    IF itp_paused_ /\ itp_currentLine_ < Len(itp_lines_)
    THEN LET r == executeLine(itp_lines_[itp_currentLine_ + 1],
                              itp_variables_, itp_lastError_)
         IN  [currentLine |-> itp_currentLine_ + 1, variables |-> r.variables,
              lastError |-> r.lastError, frames |-> r.frames,
              returns |-> r.returns]
    ELSE [currentLine |-> itp_currentLine_, variables |-> itp_variables_,
          lastError |-> itp_lastError_, frames |-> << >>, returns |-> TRUE]

\* BasicInterpreter::getCurrentLine
getCurrentLine(cursor) == cursor + 1

\* BasicInterpreter::cleanup (called by handleDisconnect): the session is
\* cleared.
cleanup ==
    /\ itp_lines_' = << >>
    /\ itp_currentLine_' = 0
    /\ itp_paused_' = FALSE
    /\ itp_variables_' = EmptyMap
    /\ itp_lastError_' = ""

\* ------------------------------------------------- DAPServer: handlers
LaunchArgs ==
    {[kind |-> "none", path |-> NoSource, content |-> EmptyContent],
     [kind |-> "illtyped", path |-> NoSource, content |-> EmptyContent]}
    \cup {[kind |-> "program", path |-> f, content |-> readFileContent(f)] :
             f \in Files}

\* DAPServer::addSource
addSource(src, path, content) == MapPut(src, path, content)

\* DAPServer::handleLaunch.  A program whose path is not a string makes the
\* handler throw after the first two assignments.
handleLaunch(seq, a) ==
    /\ CanRead
    /\ debugging_' = TRUE
    /\ currentLine_' = 0
    /\ IF a.kind = "illtyped"
       THEN /\ Threw(seq, "launch")
            /\ UNCHANGED <<currentSource_, sources_, itpVars>>
       ELSE /\ IF a.kind = "program" /\ a.content # EmptyContent
               THEN /\ sources_' = addSource(sources_, a.path, a.content)
                    /\ currentSource_' = a.path
               ELSE UNCHANGED <<sources_, currentSource_>>
            /\ LET content == getSource(sources_', currentSource_')
               IN  IF content # EmptyContent
                   THEN /\ itp_lines_' = loadProgram(content).lines
                        /\ itp_currentLine_' = loadProgram(content).currentLine
                        /\ itp_lastError_' = loadProgram(content).lastError
                        /\ itp_paused_' = TRUE
                        /\ UNCHANGED itp_variables_
                   ELSE UNCHANGED itpVars
            /\ Replied(seq, "launch",
                       <<Event("initialized"), Event("process"),
                         StoppedEvent("entry", currentLine_')>>, NoBody)
    /\ UNCHANGED <<useNetwork_, paused_, breakpoints_, breakpointMap_,
                   nextBreakpointId_, runTillStop_, stepMode_, execVars>>

\* DAPServer::handleAttach
handleAttach(seq) ==
    /\ CanRead
    /\ debugging_' = TRUE
    /\ Replied(seq, "attach",
               <<Event("initialized"), StoppedEvent("entry", currentLine_)>>,
               NoBody)
    /\ UNCHANGED <<useNetwork_, paused_, currentLine_, currentSource_,
                   sources_, breakpoints_, breakpointMap_, nextBreakpointId_,
                   runTillStop_, stepMode_, itpVars, execVars>>

\* handleDisconnect with the slip of starting the breakpoint ids afresh for
\* the next session.
handleDisconnect_resetsIds(seq) ==
    /\ CanRead
    /\ debugging_' = FALSE
    /\ paused_' = FALSE
    /\ sources_' = MapErase(sources_, currentSource_)
    /\ currentLine_' = 0
    /\ currentSource_' = NoSource
    /\ cleanup
    /\ nextBreakpointId_' = 1
    /\ Replied(seq, "disconnect", << >>, NoBody)
    /\ UNCHANGED <<useNetwork_, breakpoints_, breakpointMap_,
                   runTillStop_, stepMode_, execVars>>

\* DAPServer::handleDisconnect
handleDisconnect(seq) ==
    /\ CanRead
    /\ debugging_' = FALSE
    /\ paused_' = FALSE
    /\ sources_' = MapErase(sources_, currentSource_)
    /\ currentLine_' = 0
    /\ currentSource_' = NoSource
    /\ cleanup
    /\ Replied(seq, "disconnect", << >>, NoBody)
    /\ UNCHANGED <<useNetwork_, breakpoints_, breakpointMap_,
                   nextBreakpointId_, runTillStop_, stepMode_, execVars>>

\* DAPServer::handleTerminate
handleTerminate(seq) ==
    /\ CanRead
    /\ debugging_' = FALSE
    /\ paused_' = FALSE
    /\ Replied(seq, "terminate", <<Event("terminated")>>, NoBody)
    /\ UNCHANGED <<useNetwork_, currentLine_, currentSource_, sources_,
                   breakpoints_, breakpointMap_, nextBreakpointId_,
                   runTillStop_, stepMode_, itpVars, execVars>>

\* DAPServer::handleRestart
handleRestart(seq) ==
    /\ CanRead
    /\ paused_' = FALSE
    /\ currentLine_' = 0
    /\ debugging_' = TRUE
    /\ Replied(seq, "restart",
               <<Event("initialized"), StoppedEvent("restart", currentLine_')>>,
               NoBody)
    /\ UNCHANGED <<useNetwork_, currentSource_, sources_, breakpoints_,
                   breakpointMap_, nextBreakpointId_, runTillStop_, stepMode_,
                   itpVars, execVars>>

\* DAPServer::setBreakpoint: the line joins the set of the source, and a
\* record is filed under the next id.
setBreakpoint(st, source, line) ==
    [bps |-> MapPut(st.bps, source,
                    (IF source \in DOMAIN st.bps THEN st.bps[source] ELSE {})
                        \cup {line}),
     map |-> MapPut(st.map, st.next,
                    [id |-> st.next, line |-> line, source |-> source,
                     verified |-> TRUE]),
     next |-> st.next + 1,
     resp |-> st.resp]

\* DAPServer::handleSetBreakpoints, the loop over the requested breakpoints:
\* each is set, then reported under a further id taken from the counter.
RECURSIVE setBreakpointsLoop(_, _, _)
setBreakpointsLoop(st, source, lines) ==
    IF lines = << >>
    THEN st
    ELSE LET s1 == setBreakpoint(st, source, Head(lines))
             s2 == [s1 EXCEPT !.resp = Append(s1.resp,
                                  [id |-> s1.next, verified |-> TRUE,
                                   line |-> Head(lines)]),
                              !.next = s1.next + 1]
         IN  setBreakpointsLoop(s2, source, Tail(lines))

SetBreakpointsArgs ==
    {[kind |-> "missing", source |-> NoSource, lines |-> << >>]}
    \cup [kind : {"ok"}, source : Paths, lines : BpLists]

\* DAPServer::handleSetBreakpoints.  Without arguments, arguments["source"]
\* throws before anything is changed.
handleSetBreakpoints(seq, a) ==
    /\ CanRead
    /\ nextBreakpointId_ + 2 * Len(a.lines) <= MaxBpId
    /\ IF a.kind = "missing"
       THEN /\ Threw(seq, "setBreakpoints")
            /\ UNCHANGED <<breakpoints_, breakpointMap_, nextBreakpointId_>>
       ELSE LET r == setBreakpointsLoop(
                        [bps |-> breakpoints_, map |-> breakpointMap_,
                         next |-> nextBreakpointId_, resp |-> << >>],
                        a.source, a.lines)
            IN  /\ breakpoints_' = r.bps
                /\ breakpointMap_' = r.map
                /\ nextBreakpointId_' = r.next
                /\ Replied(seq, "setBreakpoints", << >>, r.resp)
    /\ UNCHANGED <<useNetwork_, debugging_, paused_, currentLine_,
                   currentSource_, sources_, runTillStop_, stepMode_,
                   itpVars, execVars>>

\* DAPServer::handleContinue
handleContinue(seq) ==
    /\ CanRead
    /\ paused_' = FALSE
    /\ runTillStop_' = TRUE
    /\ Replied(seq, "continue", <<Event("continued")>>, NoBody)
    /\ UNCHANGED <<useNetwork_, debugging_, currentLine_, currentSource_,
                   sources_, breakpoints_, breakpointMap_, nextBreakpointId_,
                   stepMode_, itpVars, execVars>>

\* The dispatch thread stays inside the handler of the request: nothing is
\* sent and the loop of main() reads no further request.
Stuck(seq, cmd) ==
    /\ out' = << >>
    /\ last' = [command |-> cmd, seq |-> seq, threw |-> FALSE,
                closed |-> NoSource]
    /\ running_' = running_
    /\ dispatchPc' = "handler"
    /\ UNCHANGED <<netVars, interpVars, wireVars>>

\* DAPServer::handleNext.  step() clears the interpreter's paused flag before
\* the line and sets it after; the cursor moves after the line.
handleNext(seq) ==
    /\ CanRead
    /\ IF step.returns
       THEN /\ itp_currentLine_' = step.currentLine
            /\ itp_variables_' = step.variables
            /\ itp_lastError_' = step.lastError
            /\ currentLine_' = getCurrentLine(itp_currentLine_')
            /\ Replied(seq, "next",
                       step.frames \o <<StoppedEvent("step", currentLine_')>>,
                       NoBody)
            /\ UNCHANGED itp_paused_
       ELSE /\ currentLine_' = currentLine_ + 1
            /\ itp_paused_' = FALSE
            /\ Stuck(seq, "next")
            /\ UNCHANGED <<itp_currentLine_, itp_variables_, itp_lastError_>>
    /\ UNCHANGED <<useNetwork_, debugging_, paused_, currentSource_, sources_,
                   breakpoints_, breakpointMap_, nextBreakpointId_,
                   runTillStop_, stepMode_, itp_lines_, execVars>>

\* DAPServer::handleStepIn
handleStepIn(seq) ==
    /\ CanRead
    /\ currentLine_ < MaxLineNo
    /\ currentLine_' = currentLine_ + 1
    /\ Replied(seq, "stepIn", <<StoppedEvent("step", currentLine_')>>, NoBody)
    /\ UNCHANGED <<useNetwork_, debugging_, paused_, currentSource_, sources_,
                   breakpoints_, breakpointMap_, nextBreakpointId_,
                   runTillStop_, stepMode_, itpVars, execVars>>

\* DAPServer::handleStepOut
handleStepOut(seq) ==
    /\ CanRead
    /\ currentLine_ < MaxLineNo
    /\ currentLine_' = currentLine_ + 1
    /\ Replied(seq, "stepOut", <<StoppedEvent("step", currentLine_')>>, NoBody)
    /\ UNCHANGED <<useNetwork_, debugging_, paused_, currentSource_, sources_,
                   breakpoints_, breakpointMap_, nextBreakpointId_,
                   runTillStop_, stepMode_, itpVars, execVars>>

\* DAPServer::handlePause
handlePause(seq) ==
    /\ CanRead
    /\ paused_' = TRUE
    /\ Replied(seq, "pause", <<StoppedEvent("pause", currentLine_)>>, NoBody)
    /\ UNCHANGED <<useNetwork_, debugging_, currentLine_, currentSource_,
                   sources_, breakpoints_, breakpointMap_, nextBreakpointId_,
                   runTillStop_, stepMode_, itpVars, execVars>>

\* DAPServer::receiveMessage, first block
RunTillStop ==
    /\ running_
    /\ runTillStop_
    /\ runTillStop_' = FALSE
    /\ itp_paused_' = FALSE
    /\ UNCHANGED <<running_, useNetwork_, debugging_, paused_, currentLine_,
                   currentSource_, sources_, breakpoints_, breakpointMap_,
                   nextBreakpointId_, stepMode_>>
    /\ UNCHANGED <<itp_lines_, itp_currentLine_, itp_variables_,
                   itp_lastError_>>
    /\ UNCHANGED <<execVars, dispatchPc, out, last, netVars, interpVars,
                   wireVars>>

\* -------------------------------------------- DAPServer: inspection
\* basic::valueToString, for the values of the model.
valueToString(v) ==
    CASE v = 1 -> "1"
      [] v = 2 -> "2"
      [] OTHER -> "0"

\* BasicInterpreter::evaluateExpression: tokenize, parseLine and
\* Runtime::execute on the text.  The outcome is a value, an exception with
\* its what() text, or no return.
evaluateExpression(expression, store) ==
    CASE expression = "1" ->
           [outcome |-> "value", value |-> 1, what |-> "", variables |-> store]
      [] expression = "X" ->
           IF "X" \in DOMAIN store
           THEN [outcome |-> "value", value |-> store["X"], what |-> "",
                 variables |-> store]
           ELSE [outcome |-> "throws", value |-> 0,
                 what |-> "Symbol 'X' not defined", variables |-> store]
      [] expression = "1 +" ->
           [outcome |-> "throws", value |-> 0,
            what |-> "Failed to parse expression", variables |-> store]
      [] expression = "@" ->
           [outcome |-> "throws", value |-> 0,
            what |-> "Unknown character: @", variables |-> store]
      [] expression = "<U+00E9>" ->
           [outcome |-> "throws", value |-> 0,
            what |-> "Unknown character: <C3>", variables |-> store]
      [] expression = "LET X = 2" ->
           [outcome |-> "value", value |-> 2, what |-> "",
            variables |-> MapPut(store, "X", 2)]
      [] OTHER ->
           [outcome |-> "loops", value |-> 0, what |-> "", variables |-> store]

\* Whether json::dump, called by sendMessage, accepts the string: it throws
\* on a string that is not UTF-8, such as a text holding the single byte C3.
ValidUtf8(str) == str # "Unknown character: <C3>"

EvaluateArgs ==
    {[kind |-> "missing", expression |-> ""]}
    \cup [kind : {"ok"}, expression : ExprTexts]

\* DAPServer::handleEvaluate, and sendMessage on its result.  Without an
\* expression the handler throws before the try block; an exception of the
\* evaluation is caught and becomes a result of type error, which sendMessage
\* can write only if its text is UTF-8.
handleEvaluate(seq, a) ==
    /\ CanRead
    /\ IF a.kind = "missing"
       THEN /\ Threw(seq, "evaluate")
            /\ UNCHANGED itp_variables_
       ELSE LET r == evaluateExpression(a.expression, itp_variables_)
            IN  CASE r.outcome = "value" ->
                       /\ itp_variables_' = r.variables
                       /\ Replied(seq, "evaluate", << >>,
                                  [result |-> valueToString(r.value),
                                   type |-> "number",
                                   variablesReference |-> 0])
                  [] r.outcome = "throws" /\ ValidUtf8(r.what) ->
                       /\ itp_variables_' = r.variables
                       /\ Replied(seq, "evaluate", << >>,
                                  [result |-> r.what, type |-> "error",
                                   variablesReference |-> 0])
                  [] r.outcome = "throws" /\ ~ValidUtf8(r.what) ->
                       /\ itp_variables_' = r.variables
                       /\ Threw(seq, "evaluate")
                  [] OTHER ->
                       /\ itp_variables_' = r.variables
                       /\ Stuck(seq, "evaluate")
    /\ UNCHANGED <<useNetwork_, debugging_, paused_, currentLine_,
                   currentSource_, sources_, breakpoints_, breakpointMap_,
                   nextBreakpointId_, runTillStop_, stepMode_, itp_lines_,
                   itp_currentLine_, itp_paused_, itp_lastError_, execVars>>

VariablesArgs ==
    {[kind |-> "missing", variablesReference |-> 0]}
    \cup [kind : {"ok"}, variablesReference : VarRefs]

\* DAPServer::handleVariables: both scopes list the whole store; the array
\* is kept as the set of its elements.
handleVariables(seq, a) ==
    /\ CanRead
    /\ IF a.kind = "missing"
       THEN Threw(seq, "variables")
       ELSE Replied(seq, "variables", << >>,
                [variables |->
                   IF a.variablesReference \in {1, 2}
                   THEN {[name |-> n,
                          value |-> valueToString(itp_variables_[n]),
                          type |-> "number"] : n \in DOMAIN itp_variables_}
                   ELSE {}])
    /\ UNCHANGED <<useNetwork_, debugging_, paused_, currentLine_,
                   currentSource_, sources_, breakpoints_, breakpointMap_,
                   nextBreakpointId_, runTillStop_, stepMode_, itpVars,
                   execVars>>

SetVariableArgs ==
    {[kind |-> "missing", name |-> "", value |-> ""]}
    \cup [kind : {"ok"}, name : VarNames, value : {"7"}]

\* DAPServer::handleSetVariable: the value is echoed, nothing is stored.
handleSetVariable(seq, a) ==
    /\ CanRead
    /\ IF a.kind = "missing"
       THEN Threw(seq, "setVariable")
       ELSE Replied(seq, "setVariable", << >>,
                    [value |-> a.value, type |-> "string",
                     variablesReference |-> 0])
    /\ UNCHANGED <<useNetwork_, debugging_, paused_, currentLine_,
                   currentSource_, sources_, breakpoints_, breakpointMap_,
                   nextBreakpointId_, runTillStop_, stepMode_, itpVars,
                   execVars>>

\* DAPServer::handleStackTrace
handleStackTrace(seq) ==
    /\ CanRead
    /\ Replied(seq, "stackTrace", << >>,
               [stackFrames |-> <<[id |-> 1, name |-> "main",
                                   source |-> currentSource_,
                                   line |-> currentLine_, column |-> 0]>>,
                totalFrames |-> 1])
    /\ UNCHANGED <<useNetwork_, debugging_, paused_, currentLine_,
                   currentSource_, sources_, breakpoints_, breakpointMap_,
                   nextBreakpointId_, runTillStop_, stepMode_, itpVars,
                   execVars>>

\* DAPServer::handleScopes
handleScopes(seq) ==
    /\ CanRead
    /\ Replied(seq, "scopes", << >>,
               [scopes |-> <<[name |-> "Local", variablesReference |-> 1],
                             [name |-> "Global", variablesReference |-> 2]>>])
    /\ UNCHANGED <<useNetwork_, debugging_, paused_, currentLine_,
                   currentSource_, sources_, breakpoints_, breakpointMap_,
                   nextBreakpointId_, runTillStop_, stepMode_, itpVars,
                   execVars>>

\* DAPServer::handleThreads
handleThreads(seq) ==
    /\ CanRead
    /\ Replied(seq, "threads", << >>,
               [threads |-> <<[id |-> 1, name |-> "Main Thread"]>>])
    /\ UNCHANGED <<useNetwork_, debugging_, paused_, currentLine_,
                   currentSource_, sources_, breakpoints_, breakpointMap_,
                   nextBreakpointId_, runTillStop_, stepMode_, itpVars,
                   execVars>>

\* DAPServer::processMessage, a request whose command is not empty and has
\* no handler.
processUnknown(seq, cmd) ==
    /\ CanRead
    /\ out' = <<createErrorResponse(seq, -32601, "Method not found")>>
    /\ last' = [command |-> cmd, seq |-> seq, threw |-> FALSE,
                closed |-> NoSource]
    /\ UNCHANGED <<srvVars, itpVars, execVars, dispatchPc, netVars,
                   interpVars, wireVars>>

\* ------------------------------------- DAPServer: the execution thread
\* DAPServer::hasBreakpoint: a breakpoint on the line in the source.
hasBreakpoint(source, line) ==
    source \in DOMAIN breakpoints_ /\ line \in breakpoints_[source]

\* DAPServer::shouldPauseAt: step mode, or a breakpoint on the line in any
\* source.
shouldPauseAt(line) ==
    \/ stepMode_
    \/ \E s \in DOMAIN breakpoints_ : line \in breakpoints_[s]

\* pauseCondition_.wait(lock, [this]() { return !paused_; }): the caller
\* blocks only while the predicate is false.
waitBlocks == paused_

\* DAPServer::checkForStep, called by an execution thread before a line: up
\* to the wait on pauseCondition_, or to the return.  The thread calls it
\* only while the server runs; MaxOut caps the frames it adds between two
\* requests.
checkForStep(line) ==
    /\ running_
    /\ execPc = "idle"
    /\ Len(out) < MaxOut
    /\ execLine' = line
    /\ IF shouldPauseAt(line)
       THEN /\ out' = Append(out, StoppedEvent("step", line))
            /\ currentLine_' = IF line > 0 THEN line ELSE currentLine_
            /\ execPc' = IF waitBlocks THEN "waiting" ELSE "executing"
       ELSE /\ execPc' = "executing"
            /\ UNCHANGED <<out, currentLine_>>
    /\ UNCHANGED <<running_, useNetwork_, debugging_, paused_, currentSource_,
                   sources_, breakpoints_, breakpointMap_, nextBreakpointId_,
                   runTillStop_, stepMode_, itpVars, pauseCondition_,
                   dispatchPc, last, netVars, interpVars, wireVars>>

\* The wait of checkForStep returns: the thread woke up, spuriously or on a
\* notification, and found the predicate true.
WaitReturns ==
    /\ execPc = "waiting"
    /\ ~waitBlocks
    /\ execPc' = "executing"
    /\ pauseCondition_' = pauseCondition_ \ {"exec"}
    /\ UNCHANGED <<srvVars, itpVars, execLine, dispatchPc, out, last,
                   netVars, interpVars, wireVars>>

\* checkForStep has returned and the caller goes on with the line.
ExecProceeds ==
    /\ execPc = "executing"
    /\ execPc' = "idle"
    /\ UNCHANGED <<srvVars, itpVars, execLine, pauseCondition_, dispatchPc,
                   out, last, netVars, interpVars, wireVars>>

CheckForStep == \E line \in ExecLines : checkForStep(line)

\* ------------------------------------------- DAPServer: lost connection
\* The client closes the connection (recv yields 0 from then on) or the
\* connection breaks (recv yields -1).  The socket layer of the platform
\* decides what the calls after a failed recv on the same socket yield: the
\* error again (Winsock, for which the code is built under _WIN32) or the end
\* of the stream (the error is reported once).
ConnectionLost ==
    /\ useNetwork_
    /\ clientSocket_ >= 0
    /\ peer = "open"
    /\ peer' \in {"eof", "error", "error once"}
    /\ UNCHANGED <<srvVars, itpVars, execVars, dispatchPc, out, last,
                   serverSocket_, clientSocket_, checkConnection_,
                   interpVars, wireVars>>

\* What recv returns on the client socket of a lost connection.
recv == IF peer = "eof" THEN 0 ELSE -1

\* DAPServer::stop followed by DAPServer::start(port_, enableLogging_), up
\* to the accept call: both sockets are closed, a listening socket is opened
\* on port_, and the thread waits in accept for a client.
restartSocketServer ==
    /\ running_' = TRUE
    /\ useNetwork_' = TRUE
    /\ serverSocket_' = ListenFd
    /\ clientSocket_' = -1
    /\ dispatchPc' = "accept"

\* One iteration of the loop of main() on a lost connection: receiveMessage
\* returns a request with an empty command, having set checkConnection_ only
\* when recv returned 0; processMessage restarts the socket server only when
\* checkConnection_ is set.  The socket of a broken connection is left open.
receiveLost ==
    /\ running_ /\ ~runTillStop_ /\ dispatchPc = "idle"
    /\ useNetwork_ /\ clientSocket_ >= 0
    /\ peer # "open"
    /\ out' = << >>
    /\ last' = [command |-> "", seq |-> 0, threw |-> FALSE,
                closed |-> NoSource]
    /\ LET check == checkConnection_ \/ recv = 0
       IN  IF check
           THEN /\ checkConnection_' = FALSE
                /\ restartSocketServer
                /\ UNCHANGED peer
           ELSE /\ peer' = IF peer = "error once" THEN "eof" ELSE peer
                /\ UNCHANGED <<running_, useNetwork_, serverSocket_,
                               clientSocket_, checkConnection_, dispatchPc>>
    /\ UNCHANGED <<debugging_, paused_, currentLine_, currentSource_,
                   sources_, breakpoints_, breakpointMap_, nextBreakpointId_,
                   runTillStop_, stepMode_, itpVars, execVars, interpVars,
                   wireVars>>

\* The accept call of DAPServer::start returns the socket of a new client.
accept ==
    /\ dispatchPc = "accept"
    /\ clientSocket_' = ClientFd
    /\ peer' = "open"
    /\ dispatchPc' = "idle"
    /\ UNCHANGED <<srvVars, itpVars, execVars, out, last, serverSocket_,
                   checkConnection_, interpVars, wireVars>>

\* ============================================================ interpreter
\* --------------------------------------------------------- characters
\* A text is a sequence of characters.  The printable characters in the
\* order of their codes, from the space (32) to the tilde (126); the place
\* of the grave accent (96), which no text here holds, is left empty.
Ascii ==
    <<" ", "!", "\"", "#", "$", "%", "&", "'", "(", ")", "*", "+", ",", "-",
      ".", "/", "0", "1", "2", "3", "4", "5", "6", "7", "8", "9", ":", ";",
      "<", "=", ">", "?", "@", "A", "B", "C", "D", "E", "F", "G", "H", "I",
      "J", "K", "L", "M", "N", "O", "P", "Q", "R", "S", "T", "U", "V", "W",
      "X", "Y", "Z", "[", "\\", "]", "^", "_", "", "a", "b", "c", "d", "e",
      "f", "g", "h", "i", "j", "k", "l", "m", "n", "o", "p", "q", "r", "s",
      "t", "u", "v", "w", "x", "y", "z", "{", "|", "}", "~">>

\* The code of a character.
ord(ch) ==
    CASE ch = "\t" -> 9
      [] ch = "\n" -> 10
      [] ch = "\r" -> 13
      [] OTHER -> 31 + (CHOOSE i \in 1..Len(Ascii) : Ascii[i] = ch)

isspace(ch) == ord(ch) \in {9, 10, 13, 32}

isdigit(ch) == ord(ch) \in 48..57

isalpha(ch) == ord(ch) \in (65..90) \cup (97..122)

isalnum(ch) == isalpha(ch) \/ isdigit(ch)

\* ------------------------------------------------------------- Value
\* Value = std::variant<int, double, std::string, bool>.  A double is held
\* as the fraction num/den in lowest terms with den > 0; den = 0 stands for a
\* double that is no fraction (infinite, NaN or irrational).
IntV(n) == [type |-> "int", v |-> n]

StringV(s) == [type |-> "string", s |-> s]

BoolV(b) == [type |-> "bool", b |-> b]

\* Value{}: the first alternative, an int 0.
DefaultV == IntV(0)

\* std::variant::index
index(v) ==
    CASE v.type = "int" -> 0
      [] v.type = "double" -> 1
      [] v.type = "string" -> 2
      [] OTHER -> 3

Abs(x) == IF x < 0 THEN -x ELSE x

RECURSIVE GCD(_, _)
GCD(a, b) == IF b = 0 THEN a ELSE GCD(b, a % b)

Inexact == [type |-> "double", num |-> 0, den |-> 0]

DoubleV(num, den) ==
    IF den = 0
    THEN Inexact
    ELSE LET g == GCD(Abs(num), Abs(den))
             s == IF den < 0 THEN -1 ELSE 1
         IN  [type |-> "double", num |-> (s * num) \div g,
              den |-> (s * den) \div g]

RECURSIVE Pow(_, _)
Pow(b, n) == IF n = 0 THEN 1 ELSE b * Pow(b, n - 1)

\* The largest int.
INT_MAX == 2147483647

\* ------------------------------------------------ numbers and texts
DigitValue(ch) == ord(ch) - 48

\* The number that a sequence of digits spells.
RECURSIVE DigitsValue(_)
DigitsValue(ds) ==
    IF ds = << >> THEN 0
    ELSE 10 * DigitsValue(SubSeq(ds, 1, Len(ds) - 1)) + DigitValue(ds[Len(ds)])

\* The longest prefix of digits.
RECURSIVE LeadingDigits(_)
LeadingDigits(s) ==
    IF s # << >> /\ isdigit(s[1])
    THEN <<s[1]>> \o LeadingDigits(Tail(s))
    ELSE << >>

\* std::stoi on a text of digits and dots: the digits before the first other
\* character; it throws when there is none or when the number is no int.
stoi(s) ==
    LET ds == LeadingDigits(s)
    IN  IF ds = << >> \/ DigitsValue(ds) > INT_MAX
        THEN [ok |-> FALSE, value |-> DefaultV]
        ELSE [ok |-> TRUE, value |-> IntV(DigitsValue(ds))]

\* std::stod on a text of digits and dots: the digits, a dot and the digits
\* after it; it throws when there is no digit.
stod(s) ==
    LET ip == LeadingDigits(s)
        rest == SubSeq(s, Len(ip) + 1, Len(s))
        fp == IF rest # << >> /\ rest[1] = "."
              THEN LeadingDigits(Tail(rest))
              ELSE << >>
    IN  IF ip = << >> /\ fp = << >>
        THEN [ok |-> FALSE, value |-> DefaultV]
        ELSE [ok |-> TRUE,
              value |-> DoubleV(DigitsValue(ip) * Pow(10, Len(fp))
                                    + DigitsValue(fp),
                                Pow(10, Len(fp)))]

\* The decimal digits of a natural number.
RECURSIVE IntDigits(_)
IntDigits(n) ==
    IF n < 10 THEN <<Ascii[17 + n]>>
    ELSE IntDigits(n \div 10) \o <<Ascii[17 + (n % 10)]>>

\* operator<< of an int
IntText(n) == IF n < 0 THEN <<"-">> \o IntDigits(-n) ELSE IntDigits(n)

RECURSIVE StripZeros(_)
StripZeros(ds) ==
    IF ds # << >> /\ ds[Len(ds)] = "0"
    THEN StripZeros(SubSeq(ds, 1, Len(ds) - 1))
    ELSE ds

\* The digits of n in a field of width w, with leading zeros.
RECURSIVE ZeroPad(_, _)
ZeroPad(ds, w) == IF Len(ds) >= w THEN ds ELSE ZeroPad(<<"0">> \o ds, w)

\* operator<< of a double: six significant digits, trailing zeros and a
\* trailing point dropped (for magnitudes from 1 to below 10^6, and for 0).
DoubleText(d) ==
    IF d.den = 0 THEN <<"n", "a", "n">>
    ELSE LET int == Abs(d.num) \div d.den
             places == IF Len(IntDigits(int)) >= 6 THEN 0
                       ELSE 6 - Len(IntDigits(int))
             scaled == (2 * Abs(d.num) * Pow(10, places) + d.den)
                           \div (2 * d.den)
             ip == scaled \div Pow(10, places)
             fp == StripZeros(ZeroPad(IntDigits(scaled % Pow(10, places)),
                                      places))
             sign == IF d.num < 0 THEN <<"-">> ELSE << >>
         IN  sign \o IntDigits(ip)
                  \o (IF fp = << >> THEN << >> ELSE <<".">> \o fp)

\* operator<< of the alternative of a Value (a bool is written as 0 or 1).
streamText(v) ==
    CASE v.type = "int" -> IntText(v.v)
      [] v.type = "double" -> DoubleText(v)
      [] v.type = "string" -> v.s
      [] OTHER -> IF v.b THEN <<"1">> ELSE <<"0">>

\* -------------------------------------------------------------- Lexer
Token(type, value) == [type |-> type, value |-> value]

\* Lexer::setupKeywords: the spelling of each keyword.
keywords_ ==
    ("LET" :> <<"L", "E", "T">>) @@
    ("IF" :> <<"I", "F">>) @@
    ("THEN" :> <<"T", "H", "E", "N">>) @@
    ("ELSE" :> <<"E", "L", "S", "E">>) @@
    ("FOR" :> <<"F", "O", "R">>) @@
    ("TO" :> <<"T", "O">>) @@
    ("STEP" :> <<"S", "T", "E", "P">>) @@
    ("NEXT" :> <<"N", "E", "X", "T">>) @@
    ("WHILE" :> <<"W", "H", "I", "L", "E">>) @@
    ("WEND" :> <<"W", "E", "N", "D">>) @@
    ("DO" :> <<"D", "O">>) @@
    ("LOOP" :> <<"L", "O", "O", "P">>) @@
    ("UNTIL" :> <<"U", "N", "T", "I", "L">>) @@
    ("SUB" :> <<"S", "U", "B">>) @@
    ("END" :> <<"E", "N", "D">>) @@
    ("FUNCTION" :> <<"F", "U", "N", "C", "T", "I", "O", "N">>) @@
    ("RETURN" :> <<"R", "E", "T", "U", "R", "N">>) @@
    ("PRINT" :> <<"P", "R", "I", "N", "T">>) @@
    ("INPUT" :> <<"I", "N", "P", "U", "T">>) @@
    ("READ" :> <<"R", "E", "A", "D">>) @@
    ("DATA" :> <<"D", "A", "T", "A">>) @@
    ("RESTORE" :> <<"R", "E", "S", "T", "O", "R", "E">>) @@
    ("DIM" :> <<"D", "I", "M">>)

\* The number scan of Lexer::tokenize: the position after the digits, with
\* at most one dot among them.
RECURSIVE scanNumber(_, _, _)
scanNumber(input, pos, hasDecimal) ==
    IF pos > Len(input) THEN pos
    ELSE IF isdigit(input[pos]) THEN scanNumber(input, pos + 1, hasDecimal)
    ELSE IF input[pos] = "." /\ ~hasDecimal
         THEN scanNumber(input, pos + 1, TRUE)
    ELSE pos

\* The escape sequences of a string literal.
escape(ch) ==
    CASE ch = "n" -> <<"\n">>
      [] ch = "t" -> <<"\t">>
      [] ch = "r" -> <<"\r">>
      [] ch = "\"" -> <<"\"">>
      [] ch = "\\" -> <<"\\">>
      [] OTHER -> <<"\\", ch>>

\* The string scan of Lexer::tokenize, from the character after the opening
\* quote: the characters of the string and the position of the closing quote
\* (or the end of the input).
RECURSIVE scanString(_, _, _)
scanString(input, pos, str) ==
    IF pos > Len(input) \/ input[pos] = "\""
    THEN [str |-> str, pos |-> pos]
    ELSE IF input[pos] = "\\" /\ pos + 1 <= Len(input)
         THEN scanString(input, pos + 2, str \o escape(input[pos + 1]))
         ELSE scanString(input, pos + 1, Append(str, input[pos]))

\* The identifier scan of Lexer::tokenize.
RECURSIVE scanIdentifier(_, _)
scanIdentifier(input, pos) ==
    IF pos <= Len(input) /\ (isalnum(input[pos]) \/ input[pos] = "_")
    THEN scanIdentifier(input, pos + 1)
    ELSE pos

\* The comment skip of Lexer::tokenize: up to the end of the line.
RECURSIVE skipComment(_, _)
skipComment(input, pos) ==
    IF pos <= Len(input) /\ input[pos] # "\n"
    THEN skipComment(input, pos + 1)
    ELSE pos

\* The operators and delimiters of Lexer::tokenize: the token at pos, or no
\* token for a character that the switch does not know.
operatorToken(input, pos) ==
    LET ch == input[pos]
        next == IF pos + 1 <= Len(input) THEN input[pos + 1] ELSE ""
    IN  CASE ch = "+" -> Token("PLUS", <<"+">>)
          [] ch = "-" -> Token("MINUS", <<"-">>)
          [] ch = "*" -> Token("MULTIPLY", <<"*">>)
          [] ch = "/" -> Token("DIVIDE", <<"/">>)
          [] ch = "%" -> Token("MOD", <<"%">>)
          [] ch = "^" -> Token("POWER", <<"^">>)
          [] ch = "(" -> Token("LPAREN", <<"(">>)
          [] ch = ")" -> Token("RPAREN", <<")">>)
          [] ch = "," -> Token("COMMA", <<",">>)
          [] ch = ";" -> Token("SEMICOLON", <<";">>)
          [] ch = ":" -> Token("COLON", <<":">>)
          [] ch = "=" -> Token("ASSIGN", <<"=">>)
          [] ch = "<" /\ next = "=" -> Token("LESS_EQUAL", <<"<", "=">>)
          [] ch = "<" /\ next = ">" -> Token("NOT_EQUAL", <<"<", ">">>)
          [] ch = "<" /\ next \notin {"=", ">"} -> Token("LESS", <<"<">>)
          [] ch = ">" /\ next = "=" -> Token("GREATER_EQUAL", <<">", "=">>)
          [] ch = ">" /\ next # "=" -> Token("GREATER", <<">">>)
          [] OTHER -> Token("UNKNOWN", << >>)

\* The loop of Lexer::tokenize from position pos on.
RECURSIVE lex(_, _, _)
lex(input, pos, tokens) ==
    IF pos > Len(input)
    THEN [ok |-> TRUE, tokens |-> Append(tokens, Token("EOF_TOKEN", << >>)),
          what |-> << >>]
    ELSE LET ch == input[pos]
         IN  CASE isspace(ch) -> lex(input, pos + 1, tokens)
               [] ch = "'" -> lex(input, skipComment(input, pos), tokens)
               [] isdigit(ch) \/ ch = "." ->
                    LET end == scanNumber(input, pos, FALSE)
                    IN  lex(input, end,
                            Append(tokens,
                                   Token("NUMBER",
                                         SubSeq(input, pos, end - 1))))
               [] ch = "\"" ->
                    LET r == scanString(input, pos + 1, << >>)
                    IN  lex(input,
                            IF r.pos <= Len(input) THEN r.pos + 1 ELSE r.pos,
                            Append(tokens, Token("STRING", r.str)))
               [] isalpha(ch) \/ ch = "_" ->
                    LET end == scanIdentifier(input, pos)
                        identifier == SubSeq(input, pos, end - 1)
                        keys == {k \in DOMAIN keywords_ :
                                   keywords_[k] = identifier}
                    IN  lex(input, end,
                            Append(tokens,
                                   IF keys # {}
                                   THEN Token(CHOOSE k \in keys : TRUE,
                                              identifier)
                                   ELSE Token("IDENTIFIER", identifier)))
               [] OTHER ->
                    LET t == operatorToken(input, pos)
                    IN  IF t.type = "UNKNOWN"
                        THEN [ok |-> FALSE, tokens |-> << >>,
                              what |-> <<"Unknown character: ", ch>>]
                        ELSE lex(input, pos + Len(t.value),
                                 Append(tokens, t))

\* Lexer::tokenize: the tokens of the input and the end-of-input token, or
\* the exception for a character that starts no token.
tokenize(input) == lex(input, 1, << >>)

\* ------------------------------------------------------------- Parser
\* The nodes of the tree.  Null is the null pointer.
Null == [kind |-> "NULL"]

LiteralNode(value) == [kind |-> "LITERAL", value |-> value]

IdentifierNode(name) == [kind |-> "IDENTIFIER", name |-> name]

BinaryExpressionNode(operator_, left, right) ==
    [kind |-> "BINARY_EXPRESSION", operator_ |-> operator_, left |-> left,
     right |-> right]

FunctionCallNode(functionName, arguments) ==
    [kind |-> "FUNCTION_CALL", functionName |-> functionName,
     arguments |-> arguments]

LetStatementNode(variableName, value) ==
    [kind |-> "LET_STATEMENT", variableName |-> variableName,
     value |-> value]

IfStatementNode(condition, thenStatement, elseStatement) ==
    [kind |-> "IF_STATEMENT", condition |-> condition,
     thenStatement |-> thenStatement, elseStatement |-> elseStatement]

ForStatementNode(variableName, startValue, endValue, stepValue, body) ==
    [kind |-> "FOR_STATEMENT", variableName |-> variableName,
     startValue |-> startValue, endValue |-> endValue,
     stepValue |-> stepValue, body |-> body]

NextStatementNode == [kind |-> "NEXT_STATEMENT"]

WhileStatementNode(condition, body) ==
    [kind |-> "WHILE_STATEMENT", condition |-> condition, body |-> body]

PrintStatementNode(expressions) ==
    [kind |-> "PRINT_STATEMENT", expressions |-> expressions]

InputStatementNode(prompt, variableName) ==
    [kind |-> "INPUT_STATEMENT", prompt |-> prompt,
     variableName |-> variableName]

\* What a parse function leaves: the node and the position current_ after
\* it, or the exception and the position at which it was thrown.
Parsed(node, pos) == [ok |-> TRUE, node |-> node, pos |-> pos, what |-> << >>]

Raised(what, pos) == [ok |-> FALSE, node |-> Null, pos |-> pos, what |-> what]

\* Parser::isAtEnd
isAtEnd(tokens_, current_) ==
    current_ > Len(tokens_) \/ tokens_[current_].type = "EOF_TOKEN"

\* Parser::check
check(tokens_, current_, type) ==
    ~isAtEnd(tokens_, current_) /\ tokens_[current_].type = type

\* Parser::advance
advance(tokens_, current_) ==
    IF isAtEnd(tokens_, current_) THEN current_ ELSE current_ + 1

HasDot(value) == \E i \in 1..Len(value) : value[i] = "."

RECURSIVE parseExpression(_, _)
RECURSIVE parseStatement(_, _)

\* Parser::parsePrimary.  After match(NUMBER) the literal is last() and
\* current() is the token that follows it: the dot is looked for in the
\* token that follows.
parsePrimary(tokens_, current_) ==
    CASE check(tokens_, current_, "NUMBER") ->
           LET literal(r) ==
                 Parsed(LiteralNode(IF r.ok THEN r.value ELSE IntV(0)),
                        current_ + 1)
           IN  literal(IF HasDot(tokens_[current_ + 1].value)
                       THEN stod(tokens_[current_].value)
                       ELSE stoi(tokens_[current_].value))
      [] check(tokens_, current_, "STRING") ->
           Parsed(LiteralNode(StringV(tokens_[current_].value)), current_ + 1)
      [] check(tokens_, current_, "IDENTIFIER") ->
           Parsed(IdentifierNode(tokens_[current_].value), current_ + 1)
      [] check(tokens_, current_, "LPAREN") ->
           LET expr(e) ==
                 IF ~e.ok THEN e
                 ELSE IF check(tokens_, e.pos, "RPAREN")
                      THEN Parsed(e.node, e.pos + 1)
                      ELSE Raised(<<"Expected ')' after expression">>, e.pos)
           IN  expr(parseExpression(tokens_, current_ + 1))
      [] OTHER ->
           Raised(<<"Unexpected token: ">> \o tokens_[current_].value,
                  current_)

\* The binary node of a loop of the expression parser, from the parse of its
\* right operand r.
binaryExpr(operator_, left, r) ==
    IF ~r.ok THEN r
    ELSE Parsed(BinaryExpressionNode(operator_, left.node, r.node), r.pos)

\* The loop of Parser::parseFactor, from the parse of the left operand.
RECURSIVE parseFactorLoop(_, _)
parseFactorLoop(tokens_, left) ==
    IF left.ok /\ check(tokens_, left.pos, "POWER")
    THEN parseFactorLoop(tokens_,
             binaryExpr("POWER", left, parsePrimary(tokens_, left.pos + 1)))
    ELSE left

\* Parser::parseFactor
parseFactor(tokens_, current_) ==
    parseFactorLoop(tokens_, parsePrimary(tokens_, current_))

\* The loop of Parser::parseTerm.  operator_ is read from current() after
\* match has advanced: it is the type of the token after the operator.
RECURSIVE parseTermLoop(_, _)
parseTermLoop(tokens_, left) ==
    IF left.ok /\ \E type \in {"MULTIPLY", "DIVIDE", "MOD"} :
                      check(tokens_, left.pos, type)
    THEN parseTermLoop(tokens_,
             binaryExpr(tokens_[left.pos + 1].type, left,
                        parseFactor(tokens_, left.pos + 1)))
    ELSE left

\* Parser::parseTerm
parseTerm(tokens_, current_) ==
    parseTermLoop(tokens_, parseFactor(tokens_, current_))

\* The loop of Parser::parseExpression, with the same reading of operator_.
RECURSIVE parseExpressionLoop(_, _)
parseExpressionLoop(tokens_, left) ==
    IF left.ok /\ \E type \in {"PLUS", "MINUS", "EQUAL", "NOT_EQUAL", "LESS",
                               "LESS_EQUAL", "GREATER", "GREATER_EQUAL"} :
                      check(tokens_, left.pos, type)
    THEN parseExpressionLoop(tokens_,
             binaryExpr(tokens_[left.pos + 1].type, left,
                        parseTerm(tokens_, left.pos + 1)))
    ELSE left

\* Parser::parseExpression
parseExpression(tokens_, current_) ==
    parseExpressionLoop(tokens_, parseTerm(tokens_, current_))

\* The argument loop of Parser::parseFunctionCall: the arguments and the
\* position after them.
RECURSIVE parseArguments(_, _, _)
parseArguments(tokens_, arguments, current_) ==
    IF ~check(tokens_, current_, "RPAREN") /\ ~isAtEnd(tokens_, current_)
    THEN LET argument(r) ==
               IF ~r.ok THEN r
               ELSE IF check(tokens_, r.pos, "COMMA")
                    THEN parseArguments(tokens_, Append(arguments, r.node),
                                        r.pos + 1)
                    ELSE Parsed(Append(arguments, r.node), r.pos)
         IN  argument(parseExpression(tokens_, current_))
    ELSE Parsed(arguments, current_)

\* Parser::parseFunctionCall
parseFunctionCall(tokens_, current_) ==
    IF ~check(tokens_, current_, "IDENTIFIER")
    THEN Raised(<<"Expected function name">>, current_)
    ELSE IF check(tokens_, current_ + 1, "LPAREN")
         THEN LET functionCall(a) ==
                    IF ~a.ok THEN a
                    ELSE IF check(tokens_, a.pos, "RPAREN")
                         THEN Parsed(FunctionCallNode(tokens_[current_].value,
                                                      a.node),
                                     a.pos + 1)
                         ELSE Raised(
                                <<"Expected ')' after function arguments">>,
                                a.pos)
              IN  functionCall(parseArguments(tokens_, << >>, current_ + 2))
         ELSE Parsed(FunctionCallNode(tokens_[current_].value, << >>),
                     current_ + 1)

\* The LET node for the variable of that name, from the parse of its value.
letStatement(variableName, e) ==
    IF ~e.ok THEN e ELSE Parsed(LetStatementNode(variableName, e.node), e.pos)

\* Parser::parseLetStatement
parseLetStatement(tokens_, current_) ==
    IF ~check(tokens_, current_, "IDENTIFIER")
    THEN Raised(<<"Expected identifier after LET">>, current_)
    ELSE IF ~check(tokens_, current_ + 1, "ASSIGN")
         THEN Raised(<<"Expected '=' after variable name">>, current_ + 1)
         ELSE letStatement(tokens_[current_].value,
                           parseExpression(tokens_, current_ + 2))

\* Parser::parseIfStatement
parseIfStatement(tokens_, current_) ==
    LET ifElse(c, t, e) == Parsed(IfStatementNode(c.node, t.node, e.node),
                                  e.pos)
        ifThen(c, t) ==
          IF check(tokens_, t.pos, "ELSE")
          THEN ifElse(c, t, parseStatement(tokens_, t.pos + 1))
          ELSE Parsed(IfStatementNode(c.node, t.node, Null), t.pos)
        ifCondition(c) ==
          IF ~c.ok THEN c
          ELSE IF ~check(tokens_, c.pos, "THEN")
               THEN Raised(<<"Expected THEN after IF condition">>, c.pos)
               ELSE ifThen(c, parseStatement(tokens_, c.pos + 1))
    IN  ifCondition(parseExpression(tokens_, current_))

\* Parser::parseForStatement
parseForStatement(tokens_, current_) ==
    LET forBody(s, e, st, b) ==
          Parsed(ForStatementNode(tokens_[current_].value, s.node, e.node,
                                  st.node, b.node),
                 b.pos)
        forStep(s, e, st) ==
          IF ~st.ok THEN st
          ELSE forBody(s, e, st, parseStatement(tokens_, st.pos))
        forEnd(s, e) ==
          IF ~e.ok THEN e
          ELSE forStep(s, e, IF check(tokens_, e.pos, "STEP")
                             THEN parseExpression(tokens_, e.pos + 1)
                             ELSE Parsed(Null, e.pos))
        forStart(s) ==
          IF ~s.ok THEN s
          ELSE IF ~check(tokens_, s.pos, "TO")
               THEN Raised(<<"Expected TO in FOR statement">>, s.pos)
               ELSE forEnd(s, parseExpression(tokens_, s.pos + 1))
    IN  IF ~check(tokens_, current_, "IDENTIFIER")
        THEN Raised(<<"Expected identifier after FOR">>, current_)
        ELSE IF ~check(tokens_, current_ + 1, "ASSIGN")
        THEN Raised(<<"Expected '=' after FOR variable">>, current_ + 1)
        ELSE forStart(parseExpression(tokens_, current_ + 2))

\* Parser::parseWhileStatement
parseWhileStatement(tokens_, current_) ==
    LET whileBody(c, b) == Parsed(WhileStatementNode(c.node, b.node), b.pos)
        whileCondition(c) ==
          IF ~c.ok THEN c
          ELSE whileBody(c, parseStatement(tokens_, c.pos))
    IN  whileCondition(parseExpression(tokens_, current_))

\* The loop of Parser::parsePrintStatement: it ends at the end of the input,
\* at a semicolon and at a colon; a comma between two fields is skipped.
RECURSIVE parsePrintLoop(_, _, _)
parsePrintLoop(tokens_, expressions, current_) ==
    IF /\ ~isAtEnd(tokens_, current_)
       /\ ~check(tokens_, current_, "SEMICOLON")
       /\ ~check(tokens_, current_, "COLON")
    THEN LET field(e) ==
               IF ~e.ok THEN e
               ELSE parsePrintLoop(tokens_, Append(expressions, e.node),
                                   IF check(tokens_, e.pos, "COMMA")
                                   THEN e.pos + 1 ELSE e.pos)
         IN  field(parseExpression(tokens_, current_))
    ELSE Parsed(expressions, current_)

\* Parser::parsePrintStatement
parsePrintStatement(tokens_, current_) ==
    LET printStatement(l) ==
          IF ~l.ok THEN l ELSE Parsed(PrintStatementNode(l.node), l.pos)
    IN  printStatement(parsePrintLoop(tokens_, << >>, current_))

\* Parser::parseInputStatement
parseInputStatement(tokens_, current_) ==
    LET hasPrompt == check(tokens_, current_, "STRING")
        prompt == IF hasPrompt THEN tokens_[current_].value ELSE << >>
        name == IF hasPrompt THEN current_ + 2 ELSE current_
    IN  IF hasPrompt /\ ~check(tokens_, current_ + 1, "COMMA")
        THEN Raised(<<"Expected comma after INPUT prompt">>, current_ + 1)
        ELSE IF ~check(tokens_, name, "IDENTIFIER")
             THEN Raised(<<"Expected variable name in INPUT statement">>,
                         name)
             ELSE Parsed(InputStatementNode(prompt, tokens_[name].value),
                         name + 1)

\* Parser::synchronize: past the token of the error, then up to the token
\* after a semicolon or to the keyword that starts a statement.
RECURSIVE synchronizeLoop(_, _)
synchronizeLoop(tokens_, current_) ==
    IF isAtEnd(tokens_, current_) THEN current_
    ELSE IF tokens_[current_].type = "SEMICOLON" THEN current_ + 1
    ELSE IF tokens_[current_].type
                \in {"LET", "IF", "FOR", "WHILE", "PRINT", "INPUT"}
         THEN current_
    ELSE synchronizeLoop(tokens_, current_ + 1)

synchronize(tokens_, current_) ==
    synchronizeLoop(tokens_, advance(tokens_, current_))

\* The try block of Parser::parseStatement.  In the assignment without LET
\* the name is read from current() after match(ASSIGN) has advanced: it is
\* the text of the token after the equals sign.
parseStatementBody(tokens_, current_) ==
    CASE check(tokens_, current_, "LET") ->
           parseLetStatement(tokens_, current_ + 1)
      [] check(tokens_, current_, "IF") ->
           parseIfStatement(tokens_, current_ + 1)
      [] check(tokens_, current_, "FOR") ->
           parseForStatement(tokens_, current_ + 1)
      [] check(tokens_, current_, "NEXT") ->
           Parsed(NextStatementNode, current_ + 1)
      [] check(tokens_, current_, "WHILE") ->
           parseWhileStatement(tokens_, current_ + 1)
      [] check(tokens_, current_, "PRINT") ->
           parsePrintStatement(tokens_, current_ + 1)
      [] check(tokens_, current_, "INPUT") ->
           parseInputStatement(tokens_, current_ + 1)
      [] check(tokens_, current_, "IDENTIFIER") ->
           IF check(tokens_, current_ + 1, "ASSIGN")
           THEN letStatement(tokens_[current_ + 2].value,
                             parseExpression(tokens_, current_ + 2))
           ELSE parseFunctionCall(tokens_, current_)
      [] OTHER -> parseExpression(tokens_, current_)

\* Parser::parseStatement: the statement, or the null pointer at the end of
\* the input and after an exception, which is caught here.
parseStatement(tokens_, current_) ==
    LET caught(r) ==
          IF r.ok THEN r ELSE Parsed(Null, synchronize(tokens_, r.pos))
    IN  IF isAtEnd(tokens_, current_)
        THEN Parsed(Null, current_)
        ELSE caught(parseStatementBody(tokens_, current_))

\* Parser::parseLine
parseLine(tokens_) == parseStatement(tokens_, 1).node

\* ----------------------------------------------------------- Runtime
IsNumber(v) == v.type \in {"int", "double"}

\* static_cast<double> of an int or a double
toDouble(v) == IF v.type = "int" THEN DoubleV(v.v, 1) ELSE v

Zero == DoubleV(0, 1)

IsFraction(a) == a.den # 0

RatAdd(a, b) ==
    IF IsFraction(a) /\ IsFraction(b)
    THEN DoubleV(a.num * b.den + b.num * a.den, a.den * b.den)
    ELSE Inexact

RatNeg(a) == IF IsFraction(a) THEN DoubleV(-a.num, a.den) ELSE Inexact

RatMul(a, b) ==
    IF IsFraction(a) /\ IsFraction(b)
    THEN DoubleV(a.num * b.num, a.den * b.den)
    ELSE Inexact

RatDiv(a, b) ==
    IF IsFraction(a) /\ IsFraction(b)
    THEN DoubleV(a.num * b.den, a.den * b.num)
    ELSE Inexact

RatLess(a, b) ==
    IsFraction(a) /\ IsFraction(b) /\ a.num * b.den < b.num * a.den

RatEqual(a, b) == IsFraction(a) /\ IsFraction(b) /\ a = b

\* The integer part of a fraction, rounded towards zero.
Trunc(a) ==
    IF a.num >= 0 THEN a.num \div a.den ELSE -((-a.num) \div a.den)

\* std::fmod
fmod(a, b) ==
    IF IsFraction(a) /\ IsFraction(b) /\ b.num # 0
    THEN RatAdd(a, RatNeg(RatMul(b, DoubleV(Trunc(RatDiv(a, b)), 1))))
    ELSE Inexact

\* std::pow, for an exponent that is an integer
pow(a, b) ==
    IF IsFraction(a) /\ IsFraction(b) /\ b.den = 1
    THEN IF b.num >= 0
         THEN DoubleV(Pow(a.num, b.num), Pow(a.den, b.num))
         ELSE DoubleV(Pow(a.den, -b.num), Pow(a.num, -b.num))
    ELSE Inexact

\* The operand of a mixed comparison as a double: 0.0 for a string or a bool.
asDouble(v) == IF IsNumber(v) THEN toDouble(v) ELSE Zero

\* operator< of std::string
RECURSIVE StringLess(_, _)
StringLess(a, b) ==
    IF b = << >> THEN FALSE
    ELSE IF a = << >> THEN TRUE
    ELSE IF a[1] = b[1] THEN StringLess(Tail(a), Tail(b))
    ELSE ord(a[1]) < ord(b[1])

\* Runtime::isTruthy
isTruthy(v) ==
    CASE v.type = "bool" -> v.b
      [] v.type = "int" -> v.v # 0
      [] v.type = "double" -> v # Zero
      [] OTHER -> v.s # << >>

\* Runtime::isEqual
isEqual(a, b) ==
    IF a.type = b.type
    THEN IF IsNumber(a) THEN RatEqual(toDouble(a), toDouble(b)) ELSE a = b
    ELSE RatEqual(asDouble(a), asDouble(b))

\* Runtime::isLessThan
isLessThan(a, b) ==
    IF a.type = b.type
    THEN CASE a.type = "int" -> a.v < b.v
           [] a.type = "double" -> RatLess(a, b)
           [] a.type = "string" -> StringLess(a.s, b.s)
           [] OTHER -> ~a.b /\ b.b
    ELSE RatLess(asDouble(a), asDouble(b))

\* Runtime::isGreaterThan
isGreaterThan(a, b) ==
    IF a.type = b.type
    THEN CASE a.type = "int" -> a.v > b.v
           [] a.type = "double" -> RatLess(b, a)
           [] a.type = "string" -> StringLess(b.s, a.s)
           [] OTHER -> a.b /\ ~b.b
    ELSE RatLess(asDouble(b), asDouble(a))

\* What an operation of the runtime leaves: a value or an exception.
Returned(value) == [ok |-> TRUE, value |-> value, what |-> << >>]

Thrown(what) == [ok |-> FALSE, value |-> DefaultV, what |-> what]

\* Runtime::add
add(a, b) ==
    IF a.type = "string" /\ b.type = "string"
    THEN Returned(StringV(a.s \o b.s))
    ELSE IF IsNumber(a) /\ IsNumber(b)
         THEN Returned(RatAdd(toDouble(a), toDouble(b)))
         ELSE Returned(Zero)

\* Runtime::subtract
subtract(a, b) ==
    IF IsNumber(a) /\ IsNumber(b)
    THEN Returned(RatAdd(toDouble(a), RatNeg(toDouble(b))))
    ELSE Returned(Zero)

\* Runtime::multiply
multiply(a, b) ==
    IF IsNumber(a) /\ IsNumber(b)
    THEN Returned(RatMul(toDouble(a), toDouble(b)))
    ELSE Returned(Zero)

\* Runtime::divide
divide(a, b) ==
    IF IsNumber(a) /\ IsNumber(b)
    THEN IF toDouble(b) = Zero
         THEN Thrown(<<"Division by zero">>)
         ELSE Returned(RatDiv(toDouble(a), toDouble(b)))
    ELSE Returned(Zero)

\* Runtime::modulo
modulo(a, b) ==
    IF IsNumber(a) /\ IsNumber(b)
    THEN IF toDouble(b) = Zero
         THEN Thrown(<<"Modulo by zero">>)
         ELSE Returned(fmod(toDouble(a), toDouble(b)))
    ELSE Returned(Zero)

\* Runtime::power
power(a, b) ==
    IF IsNumber(a) /\ IsNumber(b)
    THEN Returned(pow(toDouble(a), toDouble(b)))
    ELSE Returned(Zero)

\* The switch of Runtime::executeBinaryExpression on operator_.
binaryOperation(operator_, l, r) ==
    CASE operator_ = "PLUS" -> add(l, r)
      [] operator_ = "MINUS" -> subtract(l, r)
      [] operator_ = "MULTIPLY" -> multiply(l, r)
      [] operator_ = "DIVIDE" -> divide(l, r)
      [] operator_ = "MOD" -> modulo(l, r)
      [] operator_ = "POWER" -> power(l, r)
      [] operator_ = "EQUAL" -> Returned(BoolV(isEqual(l, r)))
      [] operator_ = "NOT_EQUAL" -> Returned(BoolV(~isEqual(l, r)))
      [] operator_ = "LESS" -> Returned(BoolV(isLessThan(l, r)))
      [] operator_ = "LESS_EQUAL" ->
           Returned(BoolV(isLessThan(l, r) \/ isEqual(l, r)))
      [] operator_ = "GREATER" -> Returned(BoolV(isGreaterThan(l, r)))
      [] operator_ = "GREATER_EQUAL" ->
           Returned(BoolV(isGreaterThan(l, r) \/ isEqual(l, r)))
      [] OTHER -> Returned(DefaultV)

\* ---------------------------------------------------------- Functions
\* The names that Functions::callBuiltin knows.
builtins ==
    ("ABS" :> <<"A", "B", "S">>) @@
    ("SIN" :> <<"S", "I", "N">>) @@
    ("COS" :> <<"C", "O", "S">>) @@
    ("TAN" :> <<"T", "A", "N">>) @@
    ("SQRT" :> <<"S", "Q", "R", "T">>) @@
    ("LOG" :> <<"L", "O", "G">>) @@
    ("EXP" :> <<"E", "X", "P">>) @@
    ("LEN" :> <<"L", "E", "N">>) @@
    ("MID" :> <<"M", "I", "D">>) @@
    ("LEFT" :> <<"L", "E", "F", "T">>) @@
    ("RIGHT" :> <<"R", "I", "G", "H", "T">>) @@
    ("VAL" :> <<"V", "A", "L">>) @@
    ("STR" :> <<"S", "T", "R">>)

\* Functions::define has no caller: no function is ever defined.
functions_ == {}

IsSquare(n) == \E q \in 0..n : q * q = n

Root(n) == CHOOSE q \in 0..n : q * q = n

\* The numeric builtins.  Of the transcendental ones the model holds the
\* values that are fractions.
numericBuiltin(name, x) ==
    CASE name = "SIN" -> IF x = Zero THEN Zero ELSE Inexact
      [] name = "COS" -> IF x = Zero THEN DoubleV(1, 1) ELSE Inexact
      [] name = "TAN" -> IF x = Zero THEN Zero ELSE Inexact
      [] name = "SQRT" ->
           IF IsFraction(x) /\ x.num >= 0 /\ IsSquare(x.num) /\ IsSquare(x.den)
           THEN DoubleV(Root(x.num), Root(x.den))
           ELSE Inexact
      [] name = "LOG" -> IF x = DoubleV(1, 1) THEN Zero ELSE Inexact
      [] OTHER -> IF x = Zero THEN DoubleV(1, 1) ELSE Inexact

\* The string, or "" for another alternative.
asString(v) == IF v.type = "string" THEN v.s ELSE << >>

\* The int, the double cut to an int, or 0 for another alternative.
asInt(v) ==
    CASE v.type = "int" -> v.v
      [] v.type = "double" -> IF IsFraction(v) THEN Trunc(v) ELSE 0
      [] OTHER -> 0

Min(a, b) == IF a < b THEN a ELSE b

\* Functions::mid.  The end position is computed in size_t: a sum below
\* zero wraps to a large number.
mid(args) ==
    LET str == asString(args[1])
        start == asInt(args[2])
        length == IF Len(args) = 3 THEN asInt(args[3])
                  ELSE Len(str) - start + 1
        startPos == start - 1
        endPos == IF startPos + length < 0 THEN Len(str)
                  ELSE Min(startPos + length, Len(str))
    IN  IF start < 1 \/ start > Len(str)
        THEN StringV(<< >>)
        ELSE IF endPos < startPos
             THEN StringV(SubSeq(str, startPos + 1, Len(str)))
             ELSE StringV(SubSeq(str, startPos + 1, endPos))

\* Functions::left
left(args) ==
    LET str == asString(args[1])
        length == asInt(args[2])
    IN  IF length <= 0 THEN StringV(<< >>)
        ELSE IF length >= Len(str) THEN StringV(str)
        ELSE StringV(SubSeq(str, 1, length))

\* Functions::right
right(args) ==
    LET str == asString(args[1])
        length == asInt(args[2])
    IN  IF length <= 0 THEN StringV(<< >>)
        ELSE IF length >= Len(str) THEN StringV(str)
        ELSE StringV(SubSeq(str, Len(str) - length + 1, Len(str)))

\* Functions::val
val(args) ==
    LET str == asString(args[1])
        r == IF HasDot(str) THEN stod(str) ELSE stoi(str)
    IN  IF r.ok THEN r.value ELSE IntV(0)

\* Functions::str
str(args) ==
    IF args[1].type = "string" THEN args[1]
    ELSE StringV(streamText(args[1]))

\* Functions::callBuiltin: the result of the builtin of that name, the
\* exception for a wrong number of arguments, or Value{} for a name that is
\* no builtin.
callBuiltin(name, args) ==
    LET keys == {k \in DOMAIN builtins : builtins[k] = name}
        key == CHOOSE k \in keys : TRUE
        one == <<" function requires exactly 1 argument">>
        two == <<" function requires exactly 2 arguments">>
    IN  IF keys = {} THEN Returned(DefaultV)
        ELSE CASE key = "ABS" ->
                    IF Len(args) # 1 THEN Thrown(name \o one)
                    ELSE CASE args[1].type = "int" ->
                                Returned(IntV(Abs(args[1].v)))
                           [] args[1].type = "double" ->
                                Returned(DoubleV(Abs(args[1].num),
                                                 args[1].den))
                           [] OTHER -> Returned(IntV(0))
               [] key \in {"SIN", "COS", "TAN", "SQRT", "LOG", "EXP"} ->
                    IF Len(args) # 1 THEN Thrown(name \o one)
                    ELSE IF IsNumber(args[1])
                         THEN Returned(numericBuiltin(key,
                                                      toDouble(args[1])))
                         ELSE Returned(Zero)
               [] key = "LEN" ->
                    IF Len(args) # 1 THEN Thrown(name \o one)
                    ELSE IF args[1].type = "string"
                         THEN Returned(IntV(Len(args[1].s)))
                         ELSE Returned(IntV(0))
               [] key = "MID" ->
                    IF Len(args) < 2 \/ Len(args) > 3
                    THEN Thrown(<<"MID function requires 2 or 3 arguments">>)
                    ELSE Returned(mid(args))
               [] key = "LEFT" ->
                    IF Len(args) # 2 THEN Thrown(name \o two)
                    ELSE Returned(left(args))
               [] key = "RIGHT" ->
                    IF Len(args) # 2 THEN Thrown(name \o two)
                    ELSE Returned(right(args))
               [] key = "VAL" ->
                    IF Len(args) # 1 THEN Thrown(name \o one)
                    ELSE Returned(val(args))
               [] OTHER ->
                    IF Len(args) # 1 THEN Thrown(name \o one)
                    ELSE Returned(str(args))

\* Variables::get: the value, or 0 for a name that is not in the store.
get(variables, name) ==
    IF name \in DOMAIN variables THEN variables[name] ELSE IntV(0)

\* Functions::call.  The result of callBuiltin counts as that of a builtin
\* only when its alternative is not the first one (int).
call(name, args, variables) ==
    LET builtinResult == callBuiltin(name, args)
    IN  IF ~builtinResult.ok THEN builtinResult
        ELSE IF index(builtinResult.value) # 0 THEN builtinResult
        ELSE IF name \in functions_ THEN Returned(IntV(0))
        ELSE IF args = << >>
             THEN IF name \in DOMAIN variables
                  THEN Returned(get(variables, name))
                  ELSE Thrown(<<"Symbol '">> \o name \o <<"' not defined">>)
             ELSE Thrown(<<"Function '">> \o name \o <<"' not defined">>)

\* What Runtime::execute leaves: a value, an exception, or no return from a
\* loop; and the state st that the run has reached: the store, the output
\* events sent, the text written to the console and the line that std::cin
\* yields.
Done(value, st) ==
    [outcome |-> "value", value |-> value, what |-> << >>, st |-> st]

Raise(what, st) ==
    [outcome |-> "throws", value |-> DefaultV, what |-> what, st |-> st]

Endless(st) ==
    [outcome |-> "loops", value |-> DefaultV, what |-> << >>, st |-> st]

\* The fields of a PRINT joined by single spaces.
RECURSIVE JoinFields(_)
JoinFields(values) ==
    IF values = << >> THEN << >>
    ELSE IF Len(values) = 1 THEN streamText(values[1])
    ELSE streamText(values[1]) \o <<" ">> \o JoinFields(Tail(values))

RECURSIVE execute(_, _)
RECURSIVE executeEach(_, _, _)
RECURSIVE executeForLoop(_, _, _, _, _)
RECURSIVE executeWhileLoop(_, _, _)

\* The nodes of a list executed in order: their values.
executeEach(nodes, st, values) ==
    IF nodes = << >> THEN Done(values, st)
    ELSE LET r == execute(Head(nodes), st)
         IN  IF r.outcome # "value" THEN r
             ELSE executeEach(Tail(nodes), r.st, Append(values, r.value))

\* The category that executePrintStatement names.
stdout == <<"s", "t", "d", "o", "u", "t">>

\* Runtime::executePrintStatement.  The call of sendOutputEvent passes the
\* text as the category and "stdout" as the output; the event is sent
\* whenever the server runs.
executePrintStatement(node, st) ==
    LET r == executeEach(node.expressions, st, << >>)
        oss == JoinFields(r.value) \o <<"\n">>
    IN  IF r.outcome # "value" THEN r
        ELSE IF running_
             THEN Done(DefaultV,
                       [r.st EXCEPT
                          !.frames = Append(@, OutputEvent(oss, stdout))])
             ELSE Done(DefaultV, [r.st EXCEPT !.console = @ \o oss])

\* Runtime::executeInputStatement
executeInputStatement(node, st) ==
    LET input == st.cin
        r == IF HasDot(input) THEN stod(input) ELSE stoi(input)
        value == IF r.ok THEN r.value ELSE StringV(input)
    IN  Done(DefaultV,
             [st EXCEPT !.console = @ \o node.prompt,
                        !.variables = MapPut(@, node.variableName, value)])

\* The loop of Runtime::executeForStatement.
executeForLoop(node, st, endVal, stepVal, fuel) ==
    LET current == get(st.variables, node.variableName)
        currentVal == asDouble(current)
    IN  IF \/ RatLess(Zero, stepVal) /\ RatLess(endVal, currentVal)
           \/ RatLess(stepVal, Zero) /\ RatLess(currentVal, endVal)
        THEN Done(DefaultV, st)
        ELSE IF fuel = 0 THEN Endless(st)
        ELSE LET b == execute(node.body, st)
             IN  IF b.outcome # "value" THEN b
                 ELSE executeForLoop(
                        node,
                        [b.st EXCEPT
                           !.variables =
                              MapPut(@, node.variableName,
                                     RatAdd(currentVal, stepVal))],
                        endVal, stepVal, fuel - 1)

\* Runtime::executeForStatement
executeForStatement(node, st) ==
    LET s == execute(node.startValue, st)
        e == execute(node.endValue, s.st)
        p == IF node.stepValue.kind # "NULL"
             THEN execute(node.stepValue, e.st)
             ELSE Done(IntV(1), e.st)
    IN  IF s.outcome # "value" THEN s
        ELSE IF e.outcome # "value" THEN e
        ELSE IF p.outcome # "value" THEN p
        ELSE executeForLoop(
               node,
               [p.st EXCEPT
                  !.variables = MapPut(@, node.variableName,
                                       asDouble(s.value))],
               asDouble(e.value),
               IF IsNumber(p.value) THEN toDouble(p.value)
               ELSE DoubleV(1, 1),
               MaxIterations)

\* Runtime::executeWhileStatement
executeWhileLoop(node, st, fuel) ==
    LET c == execute(node.condition, st)
    IN  IF c.outcome # "value" THEN c
        ELSE IF ~isTruthy(c.value) THEN Done(DefaultV, c.st)
        ELSE IF fuel = 0 THEN Endless(c.st)
        ELSE LET b == execute(node.body, c.st)
             IN  IF b.outcome # "value" THEN b
                 ELSE executeWhileLoop(node, b.st, fuel - 1)

\* Runtime::execute.  A loop that is not left within MaxIterations rounds
\* counts as not left at all.
execute(node, st) ==
    CASE node.kind = "LET_STATEMENT" ->
           LET r == execute(node.value, st)
           IN  IF r.outcome # "value" THEN r
               ELSE Done(r.value,
                         [r.st EXCEPT
                            !.variables = MapPut(@, node.variableName,
                                                 r.value)])
      [] node.kind = "IF_STATEMENT" ->
           LET c == execute(node.condition, st)
           IN  IF c.outcome # "value" THEN c
               ELSE IF isTruthy(c.value)
                    THEN execute(node.thenStatement, c.st)
               ELSE IF node.elseStatement.kind # "NULL"
                    THEN execute(node.elseStatement, c.st)
               ELSE Done(DefaultV, c.st)
      [] node.kind = "FOR_STATEMENT" -> executeForStatement(node, st)
      [] node.kind = "WHILE_STATEMENT" ->
           executeWhileLoop(node, st, MaxIterations)
      [] node.kind = "PRINT_STATEMENT" -> executePrintStatement(node, st)
      [] node.kind = "INPUT_STATEMENT" -> executeInputStatement(node, st)
      [] node.kind = "FUNCTION_CALL" ->
           LET a == executeEach(node.arguments, st, << >>)
               r == call(node.functionName, a.value, a.st.variables)
           IN  IF a.outcome # "value" THEN a
               ELSE IF r.ok THEN Done(r.value, a.st)
               ELSE Raise(r.what, a.st)
      [] node.kind = "BINARY_EXPRESSION" ->
           LET l == execute(node.left, st)
               r == execute(node.right, l.st)
               v == binaryOperation(node.operator_, l.value, r.value)
           IN  IF l.outcome # "value" THEN l
               ELSE IF r.outcome # "value" THEN r
               ELSE IF v.ok THEN Done(v.value, r.st)
               ELSE Raise(v.what, r.st)
      [] node.kind = "LITERAL" -> Done(node.value, st)
      [] node.kind = "IDENTIFIER" -> Done(get(st.variables, node.name), st)
      [] OTHER -> Done(DefaultV, st)

\* ---------------------------------------- BasicInterpreter on a text
\* BasicInterpreter::evaluateExpression
evaluateText(expr, st) ==
    LET parsed(ast) ==
          IF ast.kind = "NULL"
          THEN Raise(<<"Failed to parse expression">>, st)
          ELSE execute(ast, st)
        lexed(tokens) ==
          IF ~tokens.ok THEN Raise(tokens.what, st)
          ELSE parsed(parseLine(tokens.tokens))
    IN  lexed(tokenize(expr))

\* The line without its line number: the match of ^\s*(\d+)\s*(.*) leaves
\* the rest of a line that starts with a number.
RECURSIVE SkipWhile(_, _)
SkipWhile(s, class) ==
    IF s # << >> /\ ord(s[1]) \in class THEN SkipWhile(Tail(s), class) ELSE s

stripLineNumber(line) ==
    LET afterSpace == SkipWhile(line, {9, 10, 13, 32})
        afterDigits == SkipWhile(afterSpace, 48..57)
    IN  IF afterDigits # afterSpace
        THEN SkipWhile(afterDigits, {9, 10, 13, 32})
        ELSE line

\* BasicInterpreter::executeLine: whether the line was executed, the error
\* it leaves in lastError_ (none when the line was executed), and whether
\* the call returns.
executeText(line, st) ==
    LET returns(ok, lastError, after) ==
          [returns |-> TRUE, ok |-> ok, lastError |-> lastError,
           st |-> after]
        executed(r) ==
          CASE r.outcome = "value" -> returns(TRUE, << >>, r.st)
            [] r.outcome = "throws" ->
                 returns(FALSE, <<"Error executing line: ">> \o r.what, r.st)
            [] OTHER ->
                 [returns |-> FALSE, ok |-> FALSE, lastError |-> << >>,
                  st |-> r.st]
        parsed(ast) ==
          IF ast.kind = "NULL"
          THEN returns(FALSE, <<"Failed to parse line: ">> \o line, st)
          ELSE executed(execute(ast, st))
        lexed(tokens) ==
          IF ~tokens.ok
          THEN returns(FALSE, <<"Error executing line: ">> \o tokens.what,
                       st)
          ELSE parsed(parseLine(tokens.tokens))
        stripped(code) ==
          IF line = << >> \/ code = << >> \/ code[1] = "'"
          THEN returns(TRUE, << >>, st)
          ELSE lexed(tokenize(code))
    IN  stripped(stripLineNumber(line))

\* ------------------------------------------------------- specifications
Launch == \E seq \in Seqs, a \in LaunchArgs : handleLaunch(seq, a)

Attach == \E seq \in Seqs : handleAttach(seq)

Disconnect == \E seq \in Seqs : handleDisconnect(seq)

Terminate == \E seq \in Seqs : handleTerminate(seq)

Restart == \E seq \in Seqs : handleRestart(seq)

SetBreakpoints ==
    \E seq \in Seqs, a \in SetBreakpointsArgs : handleSetBreakpoints(seq, a)

Continue == \E seq \in Seqs : handleContinue(seq)

NextRequest == \E seq \in Seqs : handleNext(seq)

StepIn == \E seq \in Seqs : handleStepIn(seq)

StepOut == \E seq \in Seqs : handleStepOut(seq)

Pause == \E seq \in Seqs : handlePause(seq)

Next ==
    \/ Launch
    \/ Attach
    \/ Disconnect
    \/ Terminate
    \/ Restart
    \/ SetBreakpoints
    \/ Continue
    \/ NextRequest
    \/ StepIn
    \/ StepOut
    \/ Pause
    \/ RunTillStop

Spec == Init /\ [][Next]_vars

\* The dispatch loop together with an execution thread: the requests that
\* load a program, set breakpoints and set or clear the paused flag, and the
\* thread's calls of checkForStep.
NextExec ==
    \/ Launch
    \/ Disconnect
    \/ Terminate
    \/ Restart
    \/ SetBreakpoints
    \/ Continue
    \/ Pause
    \/ RunTillStop
    \/ CheckForStep
    \/ WaitReturns
    \/ ExecProceeds

SpecExec == Init /\ [][NextExec]_vars

\* DAPServer::checkForStep, its first statement: the execution thread takes
\* mutex_ with std::unique_lock.  No handler of the dispatch loop takes it.
lockMutex(line) ==
    /\ running_
    /\ execPc = "idle"
    /\ mutex_ = "free"
    /\ Len(out) < MaxOut
    /\ mutex_' = "exec"
    /\ execPc' = "locked"
    /\ execLine' = line
    /\ UNCHANGED <<srvVars, itpVars, pauseCondition_, dispatchPc, out, last,
                   netVars, interpVars, wire, socketBuffer, inbound, sent>>

\* DAPServer::checkForStep under the lock: the pause check, the stopped event
\* and the current line, up to the wait, which releases mutex_, or to the
\* return, which destroys the lock.
checkForStepLocked ==
    /\ execPc = "locked"
    /\ mutex_ = "exec"
    /\ mutex_' = "free"
    /\ IF shouldPauseAt(execLine)
       THEN /\ out' = Append(out, StoppedEvent("step", execLine))
            /\ currentLine_' = IF execLine > 0 THEN execLine
                                ELSE currentLine_
            /\ execPc' = IF waitBlocks THEN "waiting" ELSE "executing"
       ELSE /\ execPc' = "executing"
            /\ UNCHANGED <<out, currentLine_>>
    /\ UNCHANGED <<running_, useNetwork_, debugging_, paused_, currentSource_,
                   sources_, breakpoints_, breakpointMap_, nextBreakpointId_,
                   runTillStop_, stepMode_, itpVars, execLine,
                   pauseCondition_, dispatchPc, last, netVars, interpVars,
                   wire, socketBuffer, inbound, sent>>

LockMutex == \E line \in ExecLines : lockMutex(line)

\* The dispatch loop and an execution thread whose checkForStep is taken
\* statement by statement.
NextMutex ==
    \/ Launch
    \/ SetBreakpoints
    \/ Continue
    \/ Pause
    \/ RunTillStop
    \/ LockMutex
    \/ checkForStepLocked
    \/ WaitReturns
    \/ ExecProceeds

SpecMutex == Init /\ [][NextMutex]_vars

\* The events that the execution path sends: stopped from checkForStep,
\* output from PRINT.
PathEvents == {"stopped", "output"}

\* One write to the outbound transport: the header of a frame, its content,
\* or both in one.
Write(frame, part) == [frame |-> frame, part |-> part]

\* DAPServer::sendMessage called by processMessage with the response of a
\* request, up to its first write: send() of the header on the socket, or the
\* insertion of the header into std::cout.  No lock is taken.
sendMessageHeader(seq) ==
    /\ CanRead
    /\ Len(wire) < MaxWire
    /\ wire' = Append(wire, Write(<<"response", seq>>, "header"))
    /\ dispatchPc' = "sending"
    /\ last' = [command |-> "threads", seq |-> seq, threw |-> FALSE,
                closed |-> NoSource]
    /\ UNCHANGED <<srvVars, itpVars, execVars, out, netVars, interpVars,
                   mutex_, socketBuffer, inbound, sent>>

\* DAPServer::sendMessage, its second write: the content.
sendMessageContent ==
    /\ dispatchPc = "sending"
    /\ wire' = Append(wire, Write(<<"response", last.seq>>, "content"))
    /\ dispatchPc' = "idle"
    /\ UNCHANGED <<srvVars, itpVars, execVars, out, last, netVars,
                   interpVars, mutex_, socketBuffer, inbound, sent>>

\* DAPServer::sendEvent called on the execution path: in network mode
\* sendNetwork sends header and content with one send(); otherwise the
\* header is inserted into std::cout, and then the content.
sendEvent(event) ==
    /\ running_
    /\ execPc = "idle"
    /\ Len(wire) < MaxWire
    /\ IF useNetwork_
       THEN /\ wire' = Append(wire, Write(<<"event", event>>, "frame"))
            /\ UNCHANGED execPc
       ELSE /\ wire' = Append(wire, Write(<<"event", event>>, "header"))
            /\ execPc' = "sending " \o event
    /\ UNCHANGED <<srvVars, itpVars, execLine, pauseCondition_, dispatchPc,
                   out, last, netVars, interpVars, mutex_, socketBuffer,
                   inbound, sent>>

\* DAPServer::sendEvent, the insertion of the content into std::cout.
sendEventContent ==
    /\ \E event \in PathEvents :
         /\ execPc = "sending " \o event
         /\ wire' = Append(wire, Write(<<"event", event>>, "content"))
    /\ execPc' = "idle"
    /\ UNCHANGED <<srvVars, itpVars, execLine, pauseCondition_, dispatchPc,
                   out, last, netVars, interpVars, mutex_, socketBuffer,
                   inbound, sent>>

SendMessageHeader == \E seq \in Seqs : sendMessageHeader(seq)

SendEvent == \E event \in PathEvents : sendEvent(event)

\* The dispatch loop answering requests while the execution path sends
\* events.
NextWire ==
    \/ SendMessageHeader
    \/ sendMessageContent
    \/ SendEvent
    \/ sendEventContent

SpecWire == Init /\ [][NextWire]_vars

\* ------------------------------------------ DAPServer: inbound frames
\* The commands of the requests that a client sends.
RequestTexts ==
    {<<"t", "h", "r", "e", "a", "d", "s">>, <<"s", "c", "o", "p", "e", "s">>,
     <<"e", "v", "a", "l", "u", "a", "t", "e">>}

\* The JSON text of a request, reduced to its command in braces.
dump(command) == <<"{">> \o command \o <<"}">>

\* json::parse with the reading of the command: it throws on a text that is
\* no JSON object.
parse(content) ==
    IF /\ Len(content) >= 2
       /\ content[1] = "{" /\ content[Len(content)] = "}"
       /\ SubSeq(content, 2, Len(content) - 1) \in RequestTexts
    THEN [ok |-> TRUE, command |-> SubSeq(content, 2, Len(content) - 1)]
    ELSE [ok |-> FALSE, command |-> << >>]

ContentLength ==
    <<"C", "o", "n", "t", "e", "n", "t", "-", "L", "e", "n", "g", "t", "h",
      ":", " ">>

HeaderEnd == <<"\r", "\n", "\r", "\n">>

\* The frame of a content, as a client writes it.
Frame(content) ==
    ContentLength \o IntText(Len(content)) \o HeaderEnd \o content

npos == -1

\* std::string::find: the 0-based place of the first occurrence.
find(s, pattern) ==
    LET hits == {i \in 0..(Len(s) - Len(pattern)) :
                    SubSeq(s, i + 1, i + Len(pattern)) = pattern}
    IN  IF hits = {} THEN npos
        ELSE CHOOSE i \in hits : \A j \in hits : i <= j

\* The lines that std::getline reads from a text.
RECURSIVE getlines(_)
getlines(s) ==
    IF s = << >> THEN << >>
    ELSE IF find(s, <<"\n">>) = npos THEN <<s>>
    ELSE <<SubSeq(s, 1, find(s, <<"\n">>))>>
         \o getlines(SubSeq(s, find(s, <<"\n">>) + 2, Len(s)))

\* std::stoul: the digits after leading white space; it throws when there
\* is none.
stoul(s) ==
    LET ds == LeadingDigits(SkipWhile(s, {9, 10, 13, 32}))
    IN  IF ds = << >> THEN [ok |-> FALSE, value |-> 0]
        ELSE [ok |-> TRUE, value |-> DigitsValue(ds)]

\* std::string::substr: at most n characters from the 0-based place pos.
substr(s, pos, n) == SubSeq(s, pos + 1, Min(pos + n, Len(s)))

\* receiveMessage, the reading of one header line: the length that a
\* Content-Length line gives, or the exception of stoul.
headerLine(line, contentLength) ==
    IF substr(line, 0, 16) = ContentLength
    THEN stoul(substr(line, 16, Len(line)))
    ELSE [ok |-> TRUE, value |-> contentLength]

\* receiveMessage, the loop over the header lines of socketBuffer.
RECURSIVE parseHeaders(_, _)
parseHeaders(headerLines, contentLength) ==
    IF headerLines = << >> THEN [ok |-> TRUE, value |-> contentLength]
    ELSE IF headerLine(Head(headerLines), contentLength).ok
         THEN parseHeaders(
                  Tail(headerLines),
                  headerLine(Head(headerLines), contentLength).value)
         ELSE [ok |-> FALSE, value |-> 0]

\* receiveMessage, network branch, the wait for the full content.  A recv
\* yields the bytes that have arrived; without any it blocks or fails.
RECURSIVE readContent(_, _, _)
readContent(buffer, arrived, contentLength) ==
    IF Len(buffer) >= contentLength
    THEN [outcome |-> "content",
          content |-> SubSeq(buffer, 1, contentLength),
          buffer |-> SubSeq(buffer, contentLength + 1, Len(buffer)),
          arrived |-> arrived]
    ELSE IF arrived # << >>
         THEN readContent(buffer \o arrived, << >>, contentLength)
         ELSE [outcome |-> "recv", content |-> << >>, buffer |-> buffer,
               arrived |-> arrived]

\* receiveMessage, network branch, from the search for the end of the header
\* in socketBuffer.
RECURSIVE readFrame(_, _)
readFrame(buffer, arrived) ==
    IF find(buffer, HeaderEnd) # npos
    THEN IF parseHeaders(getlines(SubSeq(buffer, 1,
                                         find(buffer, HeaderEnd))), 0).ok
         THEN readContent(
                  SubSeq(buffer, find(buffer, HeaderEnd) + 5, Len(buffer)),
                  arrived,
                  parseHeaders(getlines(SubSeq(buffer, 1,
                                   find(buffer, HeaderEnd))), 0).value)
         ELSE [outcome |-> "throws", content |-> << >>, buffer |-> buffer,
               arrived |-> arrived]
    ELSE IF arrived # << >>
         THEN readFrame(buffer \o arrived, << >>)
         ELSE [outcome |-> "recv", content |-> << >>, buffer |-> buffer,
               arrived |-> arrived]

\* The client of the connection writes a frame, or the first bytes of one.
clientSends ==
    /\ running_ /\ useNetwork_
    /\ clientSocket_ >= 0 /\ peer = "open"
    /\ inbound = << >>
    /\ Len(socketBuffer) <= MaxBuffer
    /\ \E command \in RequestTexts :
         \E k \in 1..Len(Frame(dump(command))) :
             inbound' = SubSeq(Frame(dump(command)), 1, k)
    /\ UNCHANGED <<srvVars, itpVars, execVars, dispatchPc, out, last, netVars,
                   interpVars, mutex_, wire, socketBuffer, sent>>

\* One iteration of the loop of main() in network mode: receiveMessage with
\* its static socketBuffer, and processMessage on what it returns, up to the
\* call of the handler.  A recv without bytes blocks while the connection is
\* open.  The exception of stoul leaves the loop and main stops the server; a
\* content that json::parse rejects and a failed recv yield the request with
\* the empty command, on which processMessage restarts the socket server if
\* checkConnection_ is set.
receiveNetwork ==
    /\ running_ /\ ~runTillStop_ /\ dispatchPc = "idle"
    /\ useNetwork_ /\ clientSocket_ >= 0
    /\ LET returned(r) ==
            /\ ~(r.outcome = "recv" /\ peer = "open")
            /\ socketBuffer' = r.buffer
            /\ inbound' = r.arrived
            /\ CASE r.outcome = "content" ->
                     /\ result' = [call |-> "receiveMessage",
                                   command |-> parse(r.content).command,
                                   reconnects |-> FALSE]
                     /\ UNCHANGED <<running_, useNetwork_, dispatchPc,
                                    netVars>>
                 [] r.outcome = "throws" ->
                     /\ result' = [call |-> "receiveMessage",
                                   command |-> << >>, reconnects |-> FALSE]
                     /\ running_' = FALSE
                     /\ UNCHANGED <<useNetwork_, dispatchPc, netVars>>
                 [] OTHER ->
                     /\ result' = [call |-> "receiveMessage",
                                   command |-> << >>,
                                   reconnects |-> (recv = 0)]
                     /\ checkConnection_' = FALSE
                     /\ IF recv = 0
                        THEN restartSocketServer /\ UNCHANGED peer
                        ELSE /\ peer' = IF peer = "error once" THEN "eof"
                                        ELSE peer
                             /\ UNCHANGED <<running_, useNetwork_,
                                            serverSocket_, clientSocket_,
                                            dispatchPc>>
       IN  returned(readFrame(socketBuffer, inbound))
    /\ UNCHANGED <<debugging_, paused_, currentLine_, currentSource_,
                   sources_, breakpoints_, breakpointMap_, nextBreakpointId_,
                   runTillStop_, stepMode_, itpVars, execVars, out, last,
                   text, console, mutex_, wire, sent>>

\* Clients that send frames on connections that drop, and the dispatch loop
\* that receives them.
NextFrames ==
    \/ clientSends
    \/ ConnectionLost
    \/ receiveNetwork
    \/ accept

SpecFrames == Init /\ [][NextFrames]_vars

\* std::getline on std::cin: the bytes before the next newline, which is
\* taken off the stream; without a newline the call blocks.
getline(stream) ==
    IF find(stream, <<"\n">>) = npos
    THEN [blocks |-> TRUE, line |-> << >>, stream |-> stream]
    ELSE [blocks |-> FALSE,
          line |-> SubSeq(stream, 1, find(stream, <<"\n">>)),
          stream |-> SubSeq(stream, find(stream, <<"\n">>) + 2,
                            Len(stream))]

\* receiveMessage, stdin branch, the loop over the header lines up to the
\* empty line or the line that is a carriage return.
RECURSIVE readHeaderLines(_, _, _)
readHeaderLines(line, stream, contentLength) ==
    IF line = << >> \/ line = <<"\r">>
    THEN [outcome |-> "headers", value |-> contentLength, stream |-> stream]
    ELSE IF ~headerLine(line, contentLength).ok
         THEN [outcome |-> "throws", value |-> 0, stream |-> stream]
    ELSE IF getline(stream).blocks
         THEN [outcome |-> "blocks", value |-> 0, stream |-> stream]
    ELSE readHeaderLines(getline(stream).line, getline(stream).stream,
                         headerLine(line, contentLength).value)

\* receiveMessage, stdin branch, after the header lines: the request with
\* the empty command for the length 0, or the read of the content.
readBody(h) ==
    IF h.outcome # "headers"
    THEN [outcome |-> h.outcome, content |-> << >>, stream |-> h.stream]
    ELSE IF h.value = 0
         THEN [outcome |-> "empty", content |-> << >>, stream |-> h.stream]
    ELSE IF Len(h.stream) < h.value
         THEN [outcome |-> "blocks", content |-> << >>, stream |-> h.stream]
    ELSE [outcome |-> "content",
          content |-> SubSeq(h.stream, 1, h.value),
          stream |-> SubSeq(h.stream, h.value + 1, Len(h.stream))]

\* receiveMessage, stdin branch.
readStdin(stream) ==
    IF getline(stream).blocks
    THEN [outcome |-> "blocks", content |-> << >>, stream |-> stream]
    ELSE IF getline(stream).line = << >>
         THEN [outcome |-> "empty", content |-> << >>,
               stream |-> getline(stream).stream]
    ELSE readBody(readHeaderLines(getline(stream).line,
                                  getline(stream).stream, 0))

\* The expression of the evaluate requests that the client writes.
InputX == <<"I", "N", "P", "U", "T", " ", "X">>

\* The client writes the frame of a request to the standard input of the
\* server.
clientWrites ==
    /\ running_ /\ ~useNetwork_
    /\ Len(inbound) <= MaxInbound
    /\ Len(sent) <= MaxSeq
    /\ \E command \in RequestTexts :
         /\ inbound' = inbound \o Frame(dump(command))
         /\ sent' = Append(sent, command)
    /\ UNCHANGED <<srvVars, itpVars, execVars, dispatchPc, out, last, netVars,
                   interpVars, mutex_, wire, socketBuffer>>

\* One iteration of the loop of main() in stdin/stdout mode: receiveMessage
\* reads a frame from std::cin, and processMessage calls the handler.  The
\* handler of an evaluate request executes the statement INPUT X, whose
\* std::getline reads std::cin as well.  A read without bytes blocks; the
\* exception of stoul is swallowed by the loop.
receiveStdin ==
    /\ running_ /\ ~runTillStop_ /\ dispatchPc = "idle"
    /\ ~useNetwork_
    /\ LET evaluated(r) ==
            /\ itp_variables_' = r.st.variables
            /\ console' = r.st.console
           returned(r) ==
            /\ r.outcome # "blocks"
            /\ result' = [call |-> "receiveMessage",
                          command |-> parse(r.content).command]
            /\ IF parse(r.content).command = <<"e", "v", "a", "l", "u", "a",
                                               "t", "e">>
               THEN /\ ~getline(r.stream).blocks
                    /\ inbound' = getline(r.stream).stream
                    /\ evaluated(evaluateText(
                           InputX,
                           [variables |-> itp_variables_, frames |-> << >>,
                            console |-> console,
                            cin |-> getline(r.stream).line]))
               ELSE /\ inbound' = r.stream
                    /\ UNCHANGED <<itp_variables_, console>>
       IN  returned(readStdin(inbound))
    /\ sent' = IF sent = << >> THEN sent ELSE Tail(sent)
    /\ UNCHANGED <<srvVars, itp_lines_, itp_currentLine_, itp_paused_,
                   itp_lastError_, execVars, dispatchPc, out, last, netVars,
                   text, mutex_, wire, socketBuffer>>

\* A client that writes requests to the standard input, and the dispatch
\* loop that reads them.
InitStdin ==
    /\ InitServer
    /\ itp_variables_ = EmptyMap
    /\ itp_lastError_ = << >>
    /\ text = << >>
    /\ result = NoResult
    /\ console = << >>

NextStdin ==
    \/ clientWrites
    \/ receiveStdin

SpecStdin == InitStdin /\ [][NextStdin]_vars

\* A setBreakpoints request with one breakpoint.
SetBreakpointsLineArgs ==
    [kind : {"ok"}, source : Paths, lines : {<<l>> : l \in BpLines}]

SetBreakpointsLine ==
    \E seq \in Seqs, a \in SetBreakpointsLineArgs :
        handleSetBreakpoints(seq, a)

\* A launch of the program "c.bas".
LaunchLoop ==
    \E seq \in Seqs :
        handleLaunch(seq, [kind |-> "program", path |-> "c.bas",
                           content |-> readFileContent("c.bas")])

Evaluate == \E seq \in Seqs, a \in EvaluateArgs : handleEvaluate(seq, a)

Variables == \E seq \in Seqs, a \in VariablesArgs : handleVariables(seq, a)

SetVariable ==
    \E seq \in Seqs, a \in SetVariableArgs : handleSetVariable(seq, a)

StackTrace == \E seq \in Seqs : handleStackTrace(seq)

Scopes == \E seq \in Seqs : handleScopes(seq)

Threads == \E seq \in Seqs : handleThreads(seq)

Unknown ==
    \E seq \in Seqs, cmd \in UnknownCommands : processUnknown(seq, cmd)

\* Inspection: a session of the program "c.bas" that is stepped, paused and
\* inspected, and requests without a handler.
NextInspect ==
    \/ LaunchLoop
    \/ NextRequest
    \/ Pause
    \/ Evaluate
    \/ Variables
    \/ SetVariable
    \/ StackTrace
    \/ Scopes
    \/ Threads
    \/ Unknown

SpecInspect == Init /\ [][NextInspect]_vars

\* Sessions: the requests that open, step, restart and close a session, and
\* the requests that set breakpoints.
NextSession ==
    \/ Launch
    \/ Disconnect
    \/ Restart
    \/ NextRequest
    \/ SetBreakpoints
    \/ SetBreakpointsLine

SpecSession == Init /\ [][NextSession]_vars

\* The network transport: a session that is launched, stepped, paused and
\* continued, over a connection that can be lost.  The loop of main() keeps
\* calling receiveMessage while the server runs, and a client that lost its
\* connection connects again.
NextNet ==
    \/ Launch
    \/ NextRequest
    \/ Pause
    \/ Continue
    \/ RunTillStop
    \/ ConnectionLost
    \/ receiveLost
    \/ accept

SpecNet ==
    Init /\ [][NextNet]_vars /\ WF_vars(receiveLost) /\ WF_vars(accept)

\* ------------------------------------------------- texts of the model
\* The operands and the operators of the arithmetic texts.
Operands == {"0", "2", "3"}

OperatorChars == {"+", "-", "*", "/", "%", "^"}

\* a op b
BinaryTexts == {<<a, op, b>> : a \in Operands, op \in OperatorChars,
                               b \in Operands}

\* a + b * c and a * b + c
PrecedenceTexts ==
    {<<a, "+", b, "*", c>> : a \in Operands, b \in Operands, c \in Operands}
    \cup
    {<<a, "*", b, "+", c>> : a \in Operands, b \in Operands, c \in Operands}

\* a / 0, a % 0, a / 0.0, a % 0.0, a / (b - b) and a % (b - b)
DivisionTexts ==
    {<<a, op, "0">> : a \in Operands, op \in {"/", "%"}}
    \cup
    {<<a, op, "0", ".", "0">> : a \in Operands, op \in {"/", "%"}}
    \cup
    {<<a, op, "(", b, "-", b, ")">> :
        a \in Operands, op \in {"/", "%"}, b \in Operands}

\* Numeric literals, alone and followed by another literal.
Literals ==
    {<<"7">>, <<"1", "2">>, <<"3", ".", "7">>, <<"0", ".", "5">>,
     <<"2", ".", "5">>}

NumberTexts ==
    Literals \cup {l \o <<" ">> \o m : l \in Literals, m \in Literals}

\* Calls of builtins: the text, the builtin and the values of the arguments.
BuiltinCalls ==
    {[text |-> <<"L", "E", "N", "(", "\"", "a", "b", "c", "\"", ")">>,
      name |-> "LEN", args |-> <<StringV(<<"a", "b", "c">>)>>],
     [text |-> <<"A", "B", "S", "(", "2", ")">>,
      name |-> "ABS", args |-> <<IntV(2)>>],
     [text |-> <<"V", "A", "L", "(", "\"", "1", "2", "\"", ")">>,
      name |-> "VAL", args |-> <<StringV(<<"1", "2">>)>>],
     [text |-> <<"S", "T", "R", "(", "2", ")">>,
      name |-> "STR", args |-> <<IntV(2)>>],
     [text |-> <<"S", "Q", "R", "T", "(", "4", ")">>,
      name |-> "SQRT", args |-> <<IntV(4)>>],
     [text |-> <<"L", "E", "F", "T", "(", "\"", "a", "b", "c", "\"", ",", " ", "2", ")">>,
      name |-> "LEFT", args |-> <<StringV(<<"a", "b", "c">>), IntV(2)>>],
     [text |-> <<"M", "I", "D", "(", "\"", "a", "b", "c", "\"", ",", " ", "2", ")">>,
      name |-> "MID", args |-> <<StringV(<<"a", "b", "c">>), IntV(2)>>]}

\* PRINT statements: the fields are string literals, separated by a
\* semicolon or by a comma.
Hello == <<"H", "e", "l", "l", "o", ",", " ">>

World == <<"W", "o", "r", "l", "d", "!">>

PrintFieldLists == {<<Hello, World>>, <<<<"A">>, <<"B">>>>, <<<<"A">>>>}

PrintSeparators == {<<";", " ">>, <<",", " ">>}

Quoted(s) == <<"\"">> \o s \o <<"\"">>

RECURSIVE SeparatedFields(_, _)
SeparatedFields(fields, sep) ==
    IF Len(fields) = 1 THEN Quoted(fields[1])
    ELSE Quoted(fields[1]) \o sep \o SeparatedFields(Tail(fields), sep)

PrintText(fields, sep) ==
    keywords_["PRINT"] \o <<" ">> \o SeparatedFields(fields, sep)

PrintTexts ==
    {PrintText(f, sep) : f \in PrintFieldLists, sep \in PrintSeparators}

\* FOR loops that print the loop variable: FOR I = from TO to [STEP by]
\* PRINT I.
ForLoops ==
    {[from |-> 1, to |-> 5, by |-> 1, clause |-> FALSE],
     [from |-> 1, to |-> 5, by |-> 2, clause |-> TRUE],
     [from |-> 5, to |-> 1, by |-> -1, clause |-> TRUE],
     [from |-> 2, to |-> 1, by |-> 1, clause |-> FALSE]}

ForText(f) ==
    keywords_["FOR"] \o <<" ", "I", " ", "=", " ">> \o IntText(f.from)
        \o <<" ">> \o keywords_["TO"] \o <<" ">> \o IntText(f.to)
        \o (IF f.clause
            THEN <<" ">> \o keywords_["STEP"] \o <<" ">> \o IntText(f.by)
            ELSE << >>)
        \o <<" ">> \o keywords_["PRINT"] \o <<" ", "I">>

ForTexts == {ForText(f) : f \in ForLoops}

\* Other statements and texts that are no statement.
OtherTexts ==
    {<<"X">>,
     <<"L", "E", "T", " ", "X", " ", "=", " ", "2">>,
     <<"X", " ", "=", " ", "5">>,
     <<"L", "E", "T", " ", "=", " ", "5">>,
     <<"@">>,
     <<"(", "2">>,
     <<"'", " ", "n", "o", "t", "e">>,
     <<"1", "0", " ", "P", "R", "I", "N", "T", " ", "1">>,
     <<"F", "O", "O", "(", "1", ")">>,
     <<"N", "E", "X", "T">>,
     <<"I", "N", "P", "U", "T", " ", "X">>,
     <<"W", "H", "I", "L", "E", " ", "0", " ", "P", "R", "I", "N", "T", " ", "1">>,
     <<"W", "H", "I", "L", "E", " ", "1", " ", "P", "R", "I", "N", "T", " ", "1">>,
     <<"I", "F", " ", "1", " ", "T", "H", "E", "N", " ", "P", "R", "I", "N", "T", " ", "\"", "T", "\"", " ", "E", "L", "S", "E", " ", "P", "R", "I", "N", "T", " ", "\"", "F", "\"">>,
     <<"F", "O", "R", " ", "I", " ", "=", " ", "1", " ", "T", "O", " ", "2", " ", "S", "T", "E", "P", " ", "0", " ", "P", "R", "I", "N", "T", " ", "I">>}

\* Assignments of a literal to an identifier, written without LET and with it.
Assignments ==
    {[name |-> <<"X">>, expr |-> <<"5">>, value |-> IntV(5)],
     [name |-> <<"Y">>, expr |-> <<"7">>, value |-> IntV(7)]}

AssignText(a) == a.name \o <<" ", "=", " ">> \o a.expr

LetText(a) == <<"L", "E", "T", " ">> \o AssignText(a)

Texts ==
    BinaryTexts \cup PrecedenceTexts \cup DivisionTexts \cup NumberTexts
    \cup {c.text : c \in BuiltinCalls} \cup PrintTexts \cup ForTexts
    \cup OtherTexts
    \cup {AssignText(a) : a \in Assignments}
    \cup {LetText(a) : a \in Assignments}

\* The stores in which a text is evaluated: empty, and X holding the int 2.
Stores == {EmptyMap, MapPut(EmptyMap, <<"X">>, IntV(2))}

\* The lines that std::cin yields to an INPUT statement.
StdinLines == {<<"7">>, <<"n", "o">>}

\* The state in which the interpreter is called on a text.
InterpreterState(cin) ==
    [variables |-> itp_variables_, frames |-> << >>, console |-> << >>,
     cin |-> cin]

\* BasicInterpreter::evaluateExpression on the text, as handleEvaluate calls
\* it: the store, the events sent and the result of the call.
EvaluateExpression ==
    /\ running_ /\ dispatchPc = "idle"
    /\ result = NoResult
    /\ \E cin \in StdinLines :
         LET returned(r) ==
               /\ result' = [call |-> "evaluateExpression",
                             outcome |-> r.outcome, value |-> r.value,
                             what |-> r.what]
               /\ itp_variables_' = r.st.variables
               /\ out' = r.st.frames
               /\ console' = r.st.console
         IN  returned(evaluateText(text, InterpreterState(cin)))
    /\ UNCHANGED <<srvVars, itp_lines_, itp_currentLine_, itp_paused_,
                   itp_lastError_, execVars, dispatchPc, last, netVars, text,
                   wireVars>>

\* BasicInterpreter::executeLine on the text, as step calls it.
ExecuteLine ==
    /\ running_ /\ dispatchPc = "idle"
    /\ result = NoResult
    /\ \E cin \in StdinLines :
         LET returned(r) ==
               /\ result' = [call |-> "executeLine", returns |-> r.returns,
                             ok |-> r.ok]
               /\ itp_lastError_' = IF r.ok \/ ~r.returns
                                    THEN itp_lastError_
                                    ELSE r.lastError
               /\ itp_variables_' = r.st.variables
               /\ out' = r.st.frames
               /\ console' = r.st.console
         IN  returned(executeText(text, InterpreterState(cin)))
    /\ UNCHANGED <<srvVars, itp_lines_, itp_currentLine_, itp_paused_,
                   execVars, dispatchPc, last, netVars, text,
                   wireVars>>

\* The interpreter on a text: the text and the store are drawn at the start,
\* a session is attached and closed, and the text is evaluated as an
\* expression or executed as a line.
InitInterp ==
    /\ InitServer
    /\ itp_variables_ \in Stores
    /\ itp_lastError_ = << >>
    /\ text \in Texts
    /\ result = NoResult
    /\ console = << >>

NextInterp ==
    \/ Attach
    \/ Disconnect
    \/ EvaluateExpression
    \/ ExecuteLine

SpecInterp == InitInterp /\ [][NextInterp]_vars

\* The values that a comparison takes as operands: ints, doubles, strings.
ComparedValues ==
    {IntV(0), IntV(2), DoubleV(2, 1), DoubleV(5, 2),
     StringV(<< >>), StringV(<<"a">>), StringV(<<"2">>)}

\* The operators of a comparison in executeBinaryExpression.
Orderings == {"LESS", "LESS_EQUAL", "GREATER", "GREATER_EQUAL"}

Comparisons == {"EQUAL", "NOT_EQUAL"} \cup Orderings

\* The stores that hold the two operands in A and B.
ComparedStores ==
    {MapPut(MapPut(EmptyMap, <<"A">>, l), <<"B">>, r) :
         l \in ComparedValues, r \in ComparedValues}

\* Runtime::execute on the binary expression node that compares A with B.
Compare ==
    /\ running_ /\ dispatchPc = "idle"
    /\ result = NoResult
    /\ \E operator_ \in Comparisons :
         LET returned(r) ==
               /\ result' = [call |-> "executeBinaryExpression",
                             operator_ |-> operator_,
                             outcome |-> r.outcome, value |-> r.value]
               /\ itp_variables_' = r.st.variables
         IN  returned(execute(BinaryExpressionNode(operator_,
                                                   IdentifierNode(<<"A">>),
                                                   IdentifierNode(<<"B">>)),
                              InterpreterState(<< >>)))
    /\ UNCHANGED <<srvVars, itp_lines_, itp_currentLine_, itp_paused_,
                   itp_lastError_, execVars, dispatchPc, out, last, netVars,
                   text, console, wireVars>>

\* The runtime on a comparison: the operands are drawn at the start, a
\* session is attached and closed, and the comparison is executed.
InitCompare ==
    /\ InitServer
    /\ itp_variables_ \in ComparedStores
    /\ itp_lastError_ = << >>
    /\ text = << >>
    /\ result = NoResult
    /\ console = << >>

NextCompare ==
    \/ Attach
    \/ Disconnect
    \/ Compare

SpecCompare == InitCompare /\ [][NextCompare]_vars

\* ------------------------------------------------------------ properties
\* A step of the dispatch loop that served a request of the command: the
\* loop reads requests only after the runTillStop_ block, and the execution
\* thread never changes last or empties out.
Served(cmd) ==
    /\ CanRead
    /\ last'.command = cmd
    /\ execPc' = execPc
    /\ execLine' = execLine

StepCommands == {"next", "stepIn", "stepOut"}

Registered ==
    {"launch", "attach", "disconnect", "terminate", "restart",
     "setBreakpoints", "continue", "next", "stepIn", "stepOut", "pause"}

StoppedIn(s) == {i \in 1..Len(s) : IsStopped(s[i])}

ResponsesIn(s) == {i \in 1..Len(s) : IsResponse(s[i])}

\* The breakpoint lines of the loaded source.
CurrentBreakpoints ==
    IF currentSource_ \in DOMAIN breakpoints_
    THEN breakpoints_[currentSource_]
    ELSE {}

\* C1: every request with a registered handler is answered by exactly one
\* response, which echoes the request's seq and carries a success flag,
\* before the next message is read.
C1_ExactlyOneResponse ==
    last.command \in Registered =>
        /\ Cardinality(ResponsesIn(out)) = 1
        /\ \A i \in ResponsesIn(out) :
              /\ out[i].request_seq = last.seq
              /\ out[i].success \in BOOLEAN

\* C2: when checkForStep has sent a stopped event for a line, the calling
\* thread is blocked in the wait of checkForStep; it does not go on to the
\* line.
C2_StoppedMeansHalted ==
    [][ (/\ debugging_
         /\ execPc = "idle"
         /\ \E l \in ExecLines : /\ execLine' = l
                                 /\ out' = Append(out, StoppedEvent("step", l)))
        => execPc' = "waiting" ]_vars

\* C3: a handler that clears the paused flag while the execution thread
\* waits in checkForStep notifies the waiters of the pause condition.
C3_ResumeNotifies ==
    [][ (debugging_ /\ execPc = "waiting" /\ paused_ /\ ~paused_')
        => "exec" \in pauseCondition_' ]_vars

\* The output events that the lines before line l (1-based) produce.
OutputsBefore(lines, l) ==
    Cardinality({k \in 1..(l - 1) : k <= Len(lines) /\ lines[k] = "PRINT"})

\* C4: paused at entry with a breakpoint on line L of the loaded source, the
\* execution resumed after a continue sends exactly one stopped event for
\* line L, after the output of the lines before L and before any other
\* output.
C4_ContinueStopsAtBreakpoint ==
    [][ \A L \in BpLines :
          (/\ runTillStop_ /\ ~runTillStop_'
           /\ last.command = "continue"
           /\ itp_paused_ /\ itp_currentLine_ = 0
           /\ L <= Len(itp_lines_)
           /\ L \in CurrentBreakpoints
           /\ \A s \in DOMAIN breakpoints_ :
                 \A l \in breakpoints_[s] : l >= L)
          => /\ Cardinality({i \in StoppedIn(out') : out'[i].line = L}) = 1
             /\ \A i \in StoppedIn(out') :
                   out'[i].line = L =>
                      /\ \A j \in (i + 1)..Len(out') : ~IsOutput(out'[j])
                      /\ Cardinality({j \in 1..i : IsOutput(out'[j])})
                            <= OutputsBefore(itp_lines_, L) ]_vars

\* The cursor at which a resumed execution stops: the next breakpoint line
\* of the loaded source after the current line, or the end of the program.
ResumeTarget ==
    LET ahead == {l \in CurrentBreakpoints :
                     l > itp_currentLine_ + 1 /\ l <= Len(itp_lines_)}
    IN  IF ahead = {}
        THEN Len(itp_lines_)
        ELSE (CHOOSE l \in ahead : \A m \in ahead : l <= m) - 1

\* C5: after a continue in the paused state the response is sent first, and
\* before the next request is read the interpreter runs on from its cursor
\* to the next breakpoint line, or to the end of the program.
C5_ContinueRunsToStop ==
    [][ (/\ runTillStop_ /\ ~runTillStop_'
         /\ last.command = "continue"
         /\ itp_paused_)
        => /\ \E i \in ResponsesIn(out) : out[i].request_seq = last.seq
           /\ itp_currentLine_' = ResumeTarget ]_vars

\* C6: after a launch that loads a program, the server and the interpreter
\* are paused and the launch has sent exactly one stopped event, with reason
\* entry; an attach sends exactly one stopped event, with reason entry.
C6_LaunchPausesAtEntry ==
    /\ (/\ last.command = "launch" /\ ~last.threw
        /\ getSource(sources_, currentSource_) # EmptyContent)
       => /\ paused_
          /\ itp_paused_
          /\ Cardinality(StoppedIn(out)) = 1
          /\ \A i \in StoppedIn(out) : out[i].reason = "entry"
    /\ (last.command = "attach")
       => /\ Cardinality(StoppedIn(out)) = 1
          /\ \A i \in StoppedIn(out) : out[i].reason = "entry"

\* C7: with a program loaded and the cursor before its end, a next, stepIn
\* or stepOut request executes one line (the cursor advances by one), leaves
\* the session paused and sends exactly one stopped event, with reason step.
C7_StepExecutesOneLine ==
    [][ (/\ \E c \in StepCommands : Served(c)
         /\ itp_lines_ # << >>
         /\ itp_currentLine_ < Len(itp_lines_))
        => /\ itp_currentLine_' = itp_currentLine_ + 1
           /\ itp_paused_'
           /\ Cardinality(StoppedIn(out')) = 1
           /\ \A i \in StoppedIn(out') : out'[i].reason = "step" ]_vars

\* The line reported by the stopped event of the frames s.
ReportedLine(s) == s[CHOOSE i \in StoppedIn(s) : TRUE].line

\* C8: in a run of next requests after a launch, each next reports the line
\* after the one reported by the stopped event before it (the entry event
\* for the first); at the end of the program the reported line stays, and
\* the next is answered with success.
C8_NextAdvancesReportedLine ==
    [][ (/\ Served("next")
         /\ last.command \in {"launch", "next"} /\ ~last.threw
         /\ itp_lines_ # << >>
         /\ itp_paused_
         /\ StoppedIn(out) # {})
        => /\ StoppedIn(out') # {}
           /\ ReportedLine(out') =
                 IF itp_currentLine_ < Len(itp_lines_)
                 THEN ReportedLine(out) + 1
                 ELSE ReportedLine(out)
           /\ \E i \in ResponsesIn(out') : out'[i].success ]_vars

\* C9: in a session with a program loaded, a pause request leaves the
\* server and the interpreter paused and sends exactly one stopped event,
\* with reason pause; while the session is paused, an execution thread that
\* reaches the next checked line blocks there.
C9_PauseHaltsExecution ==
    [][ /\ (Served("pause") /\ debugging_ /\ itp_lines_ # << >>)
           => /\ paused_'
              /\ itp_paused_'
              /\ Cardinality(StoppedIn(out')) = 1
              /\ \A i \in StoppedIn(out') : out'[i].reason = "pause"
        /\ (/\ debugging_ /\ itp_lines_ # << >>
            /\ paused_ /\ execPc = "idle" /\ execPc' # "idle")
           => execPc' = "waiting" ]_vars

\* C10: a disconnect or a terminate ends the session and releases the
\* program and the breakpoints: no breakpoint is left, the current source is
\* cleared and its text is no longer a loaded source.
C10_TerminationReleasesState ==
    [][ (Served("disconnect") \/ Served("terminate"))
        => /\ ~debugging_'
           /\ \A s \in DOMAIN breakpoints_' : breakpoints_'[s] = {}
           /\ breakpointMap_' = EmptyMap
           /\ currentSource_' = NoSource
           /\ currentSource_ \notin DOMAIN sources_' ]_vars

\* C11: a launch that follows the disconnect of a session and loads a
\* program finds the variable store empty and no breakpoint of the source
\* of the closed session, and leaves the current line and the cursor at
\* entry, as a first launch on a fresh server does.
C11_DisconnectLaunchResets ==
    [][ (/\ Served("launch") /\ ~last'.threw
         /\ last.command = "disconnect" /\ last.closed # NoSource
         /\ itp_lines_' # << >>)
        => /\ itp_variables_' = EmptyMap
           /\ last.closed \in DOMAIN breakpoints_'
                 => breakpoints_'[last.closed] = {}
           /\ \A id \in DOMAIN breakpointMap_' :
                 breakpointMap_'[id].source # last.closed
           /\ currentLine_' = 0
           /\ itp_currentLine_' = 0 ]_vars

\* C12: a restart of a session with a program loaded leaves what a launch
\* of that program leaves: the current line and the interpreter's cursor at
\* entry, the interpreter paused, and exactly one stopped event, with reason
\* entry.
C12_RestartIsLaunch ==
    [][ (Served("restart") /\ itp_lines_ # << >>)
        => /\ currentLine_' = 0
           /\ itp_currentLine_' = 0
           /\ itp_paused_'
           /\ Cardinality(StoppedIn(out')) = 1
           /\ \A i \in StoppedIn(out') : out'[i].reason = "entry" ]_vars

InspectionCommands ==
    {"next", "variables", "scopes", "stackTrace", "threads", "evaluate"}

\* C13: while a session with a program is paused, every well-formed next,
\* variables, scopes, stackTrace, threads and evaluate request is answered
\* with a response, whatever line the cursor is at: the dispatch thread
\* leaves the handler and is ready for the next request.
C13_HandlersReturn ==
    [][ (/\ \E c \in InspectionCommands : Served(c)
         /\ ~last'.threw
         /\ itp_paused_ /\ itp_lines_ # << >>)
        => /\ dispatchPc' = "idle"
           /\ \E i \in ResponsesIn(out') : out'[i].request_seq = last'.seq
      ]_vars

\* C14: once a terminate or a disconnect of a session with a program was
\* handled while the execution thread waits in checkForStep, the thread does
\* not go on to the line it waits at: the wait does not end with the thread
\* executing the program.
C14_TerminateCancelsWaiter ==
    [][ (/\ execPc = "waiting"
         /\ \/ last.command = "terminate" /\ itp_lines_ # << >>
            \/ last.command = "disconnect" /\ last.closed # NoSource
         /\ ~debugging_)
        => execPc' # "executing" ]_vars

\* C15: a request whose command has no handler is answered by exactly one
\* frame, a response that echoes the seq of the request, with success false
\* and the error code -32601; the debugging flag, the paused flag, the
\* current line, the breakpoints and the loaded sources stay as they are.
C15_UnknownCommand ==
    [][ (\E c \in UnknownCommands : Served(c))
        => /\ Len(out') = 1
           /\ IsResponse(out'[1])
           /\ out'[1].request_seq = last'.seq
           /\ ~out'[1].success
           /\ out'[1].message.code = -32601
           /\ UNCHANGED <<debugging_, paused_, currentLine_, currentSource_,
                          breakpoints_, breakpointMap_, sources_>> ]_vars

\* C15, witness: a request without a handler was answered with the error in
\* a session with a program that a pause request had paused.
C15_Witness ==
    /\ last.command \in UnknownCommands
    /\ debugging_ /\ paused_ /\ itp_lines_ # << >>
    /\ Len(out) = 1 /\ ~out[1].success

\* The breakpoints reported by the response among the frames s.
ReturnedBreakpoints(s) == s[CHOOSE i \in ResponsesIn(s) : TRUE].body

\* C16: the breakpoint ids returned by a setBreakpoints request ascend in
\* the order of the response, none is below the id counter as it was before
\* the request and all are below the counter after it; no step, a disconnect
\* and a launch included, lowers the counter.  So every id returned is
\* above all ids returned before it.
C16_IdsAscending ==
    [][ /\ nextBreakpointId_' >= nextBreakpointId_
        /\ (Served("setBreakpoints") /\ ~last'.threw)
           => LET b == ReturnedBreakpoints(out')
              IN  \A i \in 1..Len(b) :
                     /\ b[i].id >= nextBreakpointId_
                     /\ b[i].id < nextBreakpointId_'
                     /\ \A j \in 1..(i - 1) : b[j].id < b[i].id ]_vars

\* C16, witness: a setBreakpoints request is answered with an id after
\* earlier requests were answered with ids, in a launched session.
C16_Witness ==
    /\ last.command = "setBreakpoints" /\ ~last.threw
    /\ Len(ReturnedBreakpoints(out)) >= 1
    /\ ReturnedBreakpoints(out)[1].id >= 4
    /\ debugging_

\* C17: after a setBreakpoints request for a source, the breakpoints of the
\* source are the lines of the request: a line set earlier and left out of
\* the request has no breakpoint any more.
C17_BreakpointsRemovable ==
    [][ \A seq \in Seqs, a \in SetBreakpointsLineArgs :
          handleSetBreakpoints(seq, a)
          => breakpoints_'[a.source] = {a.lines[i] : i \in 1..Len(a.lines)}
      ]_vars

\* C18: after a setVariable request in a session with a program was
\* answered with success, the store maps the name to the value: a variables
\* request reports the name with that value.
C18_SetVariableStores ==
    [][ \A seq \in Seqs, a \in SetVariableArgs :
          (/\ a.kind = "ok"
           /\ debugging_ /\ itp_lines_ # << >>
           /\ handleSetVariable(seq, a))
          => /\ a.name \in DOMAIN itp_variables_'
             /\ valueToString(itp_variables_'[a.name]) = a.value ]_vars

\* C19: in a session with a program, an evaluate request whose expression
\* fails to lex, to parse or to evaluate is answered with a response whose
\* body has type error and a message; the debugging flag, the paused flag, the current line and the
\* breakpoints stay as they are, and the server goes on to read requests.
C19_EvaluateErrorTyped ==
    [][ \A seq \in Seqs, a \in EvaluateArgs :
          (/\ a.kind = "ok"
           /\ debugging_ /\ itp_lines_ # << >>
           /\ evaluateExpression(a.expression, itp_variables_).outcome
                 = "throws"
           /\ handleEvaluate(seq, a))
          => /\ \E i \in ResponsesIn(out') :
                   /\ out'[i].request_seq = seq
                   /\ out'[i].body.type = "error"
                   /\ out'[i].body.result # ""
             /\ UNCHANGED <<debugging_, paused_, currentLine_, breakpoints_,
                            breakpointMap_>>
             /\ running_' /\ dispatchPc' = "idle" ]_vars

\* A frame that tells the client of an error: a failed response, an output
\* event, or a stopped event with reason exception.
ReportsError(f) ==
    \/ IsResponse(f) /\ ~f.success
    \/ IsOutput(f)
    \/ IsStopped(f) /\ f.reason = "exception"

\* C20: when the line that a next request executes fails, a frame of the
\* request tells the client of the error, and the session goes on: the
\* interpreter is paused and the server reads the following requests.
C20_StepErrorReported ==
    [][ (/\ Served("next")
         /\ itp_paused_ /\ itp_currentLine_ < Len(itp_lines_)
         /\ ~executeLine(itp_lines_[itp_currentLine_ + 1], itp_variables_,
                         itp_lastError_).ok)
        => /\ \E i \in 1..Len(out') : ReportsError(out'[i])
           /\ itp_paused_'
           /\ running_' /\ dispatchPc' = "idle" ]_vars

\* The lines of a program text whose statement the parser cannot parse.
SyntaxErrors(lines) ==
    {k \in 1..Len(lines) : ~executeLine(lines[k], EmptyMap, "").ok}

\* C21: a program text with a statement that is a syntax error is not loaded:
\* loadProgram reports the failure, and in the session that the launch of it
\* leaves a next request executes none of its lines.
C21_SyntaxErrorAbortsLoad ==
    [][ (/\ Served("next")
         /\ debugging_ /\ currentSource_ # NoSource
         /\ itp_lines_ = getSource(sources_, currentSource_)
         /\ SyntaxErrors(itp_lines_) # {})
        => /\ ~loadProgram(itp_lines_).ok
           /\ UNCHANGED <<itp_currentLine_, itp_variables_>>
           /\ \A i \in 1..Len(out') : ~IsOutput(out'[i]) ]_vars

\* The requests that move or halt the execution of the program.
ExecutionCommands == StepCommands \cup {"continue", "pause"}

\* C22: an execution request that arrives while no session is launched or no
\* program is loaded is answered by an error response, and no stopped or
\* continued event is sent for it.
C22_NoSessionNoStep ==
    [][ (/\ \E cmd \in ExecutionCommands : Served(cmd)
         /\ (~debugging_ \/ itp_lines_ = << >>))
        => /\ \E i \in 1..Len(out') :
                 IsResponse(out'[i]) /\ ~out'[i].success
           /\ \A i \in 1..Len(out') :
                 /\ ~IsStopped(out'[i])
                 /\ out'[i] # Event("continued") ]_vars

\* C30: after each request that changes the session (launch, pause, next,
\* continue, restart, terminate, disconnect) the paused flag of the server
\* and the paused flag of the interpreter agree.
C30_PausedFlagsAgree ==
    (/\ last.command \in {"launch", "pause", "next", "continue", "restart",
                          "terminate", "disconnect"}
     /\ ~last.threw
     /\ dispatchPc = "idle")
    => (paused_ <=> itp_paused_)

\* The dispatch loop is about to read from the socket of a lost connection.
ReadsLostConnection ==
    /\ running_ /\ ~runTillStop_ /\ dispatchPc = "idle"
    /\ useNetwork_ /\ clientSocket_ >= 0
    /\ peer # "open"

\* C23: in network mode, when a read of the client socket returns the end of
\* the stream or an error, the server eventually has closed its sockets,
\* listens again, has accepted a new client and is running.
C23_ReconnectsAfterLoss ==
    ReadsLostConnection
    ~> (/\ running_ /\ dispatchPc = "idle"
        /\ serverSocket_ >= 0 /\ clientSocket_ >= 0
        /\ peer = "open")

\* The fields of a PRINT joined by single spaces.
RECURSIVE SpaceJoined(_)
SpaceJoined(fields) ==
    IF Len(fields) = 1 THEN fields[1]
    ELSE fields[1] \o <<" ">> \o SpaceJoined(Tail(fields))

\* C24: executing a PRINT statement with several fields joins the values of
\* all its fields with a single space and appends a line terminator; that
\* text is the output of one output event of category stdout when a debug
\* session is active, and is written to the console otherwise.
C24_PrintJoinsAndRoutes ==
    [][ \A f \in PrintFieldLists, sep \in PrintSeparators :
          (ExecuteLine /\ text = PrintText(f, sep))
          => IF debugging_
             THEN /\ out' = <<OutputEvent(stdout, SpaceJoined(f) \o <<"\n">>)>>
                  /\ console' = << >>
             ELSE /\ console' = SpaceJoined(f) \o <<"\n">>
                  /\ out' = << >> ]_vars

\* C25: an evaluate request respects operator precedence: for all integers
\* a, b, c of the range, evaluating the text "a+b*c" returns the value
\* a+(b*c); evaluate("2+2*2") returns 6.
C25_PrecedenceRespected ==
    [][ \A a \in Operands, b \in Operands, c \in Operands :
          (EvaluateExpression /\ text = <<a, "+", b, "*", c>>)
          => /\ result'.outcome = "value"
             /\ IsNumber(result'.value)
             /\ toDouble(result'.value)
                  = DoubleV(DigitValue(a) + DigitValue(b) * DigitValue(c), 1)
      ]_vars

\* C26: a call whose name is a built-in function is always resolved by the
\* built-in, whatever the type of the built-in's result: evaluating the call
\* returns what the built-in returns for the arguments, and
\* evaluate("LEN(\"abc\")") returns 3.
C26_BuiltinAlwaysResolved ==
    [][ \A c \in BuiltinCalls :
          (EvaluateExpression /\ text = c.text)
          => /\ callBuiltin(builtins[c.name], c.args).ok
             /\ result'.outcome = "value"
             /\ result'.value = callBuiltin(builtins[c.name], c.args).value
             /\ (c.name = "LEN" => result'.value = IntV(3)) ]_vars

\* C27: for every arithmetic expression text whose operator is division or
\* modulo and whose right-hand operand evaluates to zero (integer or
\* floating-point), evaluation raises an error and returns no value.
C27_ZeroDivisorRaises ==
    [][ (EvaluateExpression /\ text \in DivisionTexts)
        => result'.outcome = "throws" ]_vars

\* The values that the loop variable of FOR I = from TO to STEP by takes.
ForValues(f) ==
    LET n == IF f.by > 0 /\ f.from <= f.to
             THEN (f.to - f.from) \div f.by + 1
             ELSE IF f.by < 0 /\ f.from >= f.to
                  THEN (f.from - f.to) \div (-f.by) + 1
                  ELSE 0
    IN  [k \in 1..n |-> f.from + (k - 1) * f.by]

\* The text that executePrintStatement hands over for each event sent.
PrintedTexts(frames) == [i \in 1..Len(frames) |-> frames[i].category]

\* C28: executing FOR I = 1 TO 5 with a body runs the body exactly 5 times
\* with I taking 1,2,3,4,5 in order, and FOR I = 5 TO 1 STEP -1 runs it 5
\* times with I taking 5,4,3,2,1; for a nonzero step the body runs while
\* (step > 0 and I <= end) or (step < 0 and I >= end), and I is incremented
\* by the step after each run.  The body here prints I.
C28_ForRunsBodyOverRange ==
    [][ \A f \in ForLoops :
          (ExecuteLine /\ text = ForText(f))
          => /\ result'.returns /\ result'.ok
             /\ PrintedTexts(out')
                  = [k \in 1..Len(ForValues(f)) |->
                       IntText(ForValues(f)[k]) \o <<"\n">>]
             /\ asDouble(get(itp_variables_', <<"I">>))
                  = DoubleV(f.from + Len(ForValues(f)) * f.by, 1) ]_vars

\* C29: for every numeric literal token, whatever token follows it, a literal
\* without '.' is parsed to the integer it denotes and a literal with '.' to
\* the floating-point value it denotes, never truncated to an integer.  The
\* text is the literal alone (the end of the text follows) or the literal
\* followed by another literal; the value of the text is that of its first
\* literal.
C29_LiteralKeepsItsKind ==
    [][ \A l \in Literals, m \in Literals \cup {<< >>} :
          (/\ EvaluateExpression
           /\ text = (IF m = << >> THEN l ELSE l \o <<" ">> \o m))
          => /\ result'.outcome = "value"
             /\ result'.value = (IF HasDot(l) THEN stod(l).value
                                 ELSE stoi(l).value) ]_vars

\* C39: an assignment written without LET has the effect of the one written
\* with it: after the line X = expr is executed the store maps X to the value
\* of the expression, and no other variable is created or changed.
C39_ImplicitLetAssigns ==
    [][\A a \in Assignments :
         (ExecuteLine /\ text = AssignText(a))
             => itp_variables_' = MapPut(itp_variables_, a.name, a.value)]_vars

\* The comparison of two doubles that an operator stands for.
FloatCompare(operator_, a, b) ==
    CASE operator_ = "EQUAL" -> RatEqual(a, b)
      [] operator_ = "NOT_EQUAL" -> ~RatEqual(a, b)
      [] operator_ = "LESS" -> RatLess(a, b)
      [] operator_ = "LESS_EQUAL" -> RatLess(a, b) \/ RatEqual(a, b)
      [] operator_ = "GREATER" -> RatLess(b, a)
      [] OTHER -> RatLess(b, a) \/ RatEqual(a, b)

\* C40: of a string and a number the equality test is false and each
\* ordering comparison raises an evaluation error; two numbers of mixed
\* int and double type are compared by their floating-point values.
C40_MixedComparison ==
    result.call = "executeBinaryExpression" =>
        LET a == itp_variables_[<<"A">>]
            b == itp_variables_[<<"B">>]
            mixed == a.type # b.type
        IN  /\ (mixed /\ "string" \in {a.type, b.type}
                  /\ (IsNumber(a) \/ IsNumber(b))) =>
                  /\ result.operator_ = "EQUAL" =>
                       /\ result.outcome = "value"
                       /\ result.value = BoolV(FALSE)
                  /\ result.operator_ \in Orderings =>
                       result.outcome = "throws"
            /\ (mixed /\ IsNumber(a) /\ IsNumber(b)) =>
                  /\ result.outcome = "value"
                  /\ result.value =
                       BoolV(FloatCompare(result.operator_,
                                          toDouble(a), toDouble(b)))

\* C38: an evaluate request is a pure inspection: whatever the expression,
\* it leaves the variable store, the cursor of the interpreter, the paused
\* flags and the breakpoints as they were.
C38_EvaluateInspectsOnly ==
    [][Evaluate => UNCHANGED <<itp_variables_, itp_currentLine_, paused_,
                               itp_paused_, breakpoints_,
                               breakpointMap_>>]_vars

\* C37: every breakpoint that a setBreakpoints request accepts is recorded
\* in the breakpoint map under the id that the response returns for it, and
\* the request adds to the map exactly one record per returned id.
C37_ReturnedIdIsRecorded ==
    [][(Served("setBreakpoints") /\ ~last'.threw)
          => LET b == ReturnedBreakpoints(out')
                 ids == {b[i].id : i \in 1..Len(b)}
             IN  /\ \A i \in 1..Len(b) :
                       /\ b[i].id \in DOMAIN breakpointMap_'
                       /\ breakpointMap_'[b[i].id].id = b[i].id
                       /\ breakpointMap_'[b[i].id].line = b[i].line
                 /\ DOMAIN breakpointMap_' \ DOMAIN breakpointMap_ = ids ]_vars

\* C36: the pause check before line N of a launched program is true exactly
\* if the session is in single-step mode or a breakpoint exists at line N for
\* the current source: checkForStep stops the thread, with a stopped event,
\* in these cases only, and a breakpoint at line N of another source causes
\* no pause.
C36_PausesForCurrentSourceOnly ==
    [][\A line \in ExecLines :
          (checkForStep(line) /\ currentSource_ # NoSource)
              => ((out' # out)
                    <=> (stepMode_ \/ hasBreakpoint(currentSource_, line)))
      ]_vars

\* The requests that move or report the position of the session.
PositionCommands ==
    {"launch", "next", "stepIn", "stepOut", "pause", "continue", "restart"}

\* C31: with a program of K lines loaded, the line that the server reports
\* in the stopped event of a launch, next, stepIn, stepOut, pause, continue
\* or restart request is the 0-based cursor of the interpreter plus one, and
\* lies between 1 and K + 1.
C31_ReportedLineIsCursor ==
    [][((\E cmd \in PositionCommands : Served(cmd)) /\ itp_lines_' # << >>)
          => \A i \in StoppedIn(out') :
                /\ out'[i].line = itp_currentLine_' + 1
                /\ out'[i].line \in 1..(Len(itp_lines_') + 1) ]_vars

\* C32: every write of the current line, the paused flag and the breakpoint
\* set, by a handler of the dispatch loop or by the execution thread, is made
\* by a thread that holds mutex_.
C32_WritesHoldMutex ==
    [][<<currentLine_, paused_, breakpoints_>>'
           # <<currentLine_, paused_, breakpoints_>>
          => mutex_ = (IF execPc' # execPc THEN "exec" ELSE "dispatch")]_vars

\* C33: the frames of the dispatch loop and of the execution path are never
\* interleaved on the transport: the header of a frame is followed at once
\* by the content of the same frame.
C33_FramesContiguous ==
    \A i \in 1..(Len(wire) - 1) :
        wire[i].part = "header"
            => wire[i + 1] = Write(wire[i].frame, "content")

\* C34: after a connection was dropped within an inbound frame and a client
\* has connected anew, the first frame of the new client is parsed into the
\* message it encodes: no byte of the dropped connection is carried over.
C34_ReconnectStartsClean ==
    [][\A command \in RequestTexts :
          (/\ receiveNetwork
           /\ result.call = "receiveMessage" /\ result.reconnects
           /\ inbound = Frame(dump(command)))
              => result'.command = command]_vars

\* C35: in stdin/stdout mode the execution of a line for a request, a line
\* with an INPUT statement included, reads no byte of the inbound stream of
\* the protocol: receiveMessage returns every request that the client has
\* written, in the order of the writes.
C35_RequestsReceivedIntact ==
    [][(receiveStdin /\ sent # << >>)
          => result'.command = Head(sent)]_vars
====
